---- MODULE Spec2Model ----
(***************************************************************************)
(* Arcanara tarot bot (src/arcanara_bot.py): the per-user state machinery  *)
(* of the reading engine.                                                  *)
(*                                                                         *)
(* Every slash command is a coroutine on one asyncio event loop.  The      *)
(* database calls are blocking psycopg calls, so a handler can only be     *)
(* interleaved with another one where it awaits: at safe_defer (the        *)
(* acknowledgement) and at send_ephemeral (the delivery).  A handler is    *)
(* therefore modelled as                                                   *)
(*     Invoke  -> pc = "defer"   (awaiting safe_defer)                     *)
(*     <cmd>Body                 (everything between the two awaits)       *)
(*             -> pc = "send"    (awaiting send_ephemeral)                 *)
(*     Done / RevealDone         (what runs after the delivery)            *)
(* and the handlers in flight are the entries of tasks.                    *)
(***************************************************************************)
EXTENDS Integers, Sequences, FiniteSets, TLC

\* ------------------------------------------------------------------ bounds
NUsers == 2
NCards == 2
NTasks == 2
MaxTs == 2
MaxDay == 2
MaxHistory == 2

Users == 1..NUsers
Tasks == 1..NTasks
\* card names of the loaded deck (Tarot_Official.JSON), and one name that a
\* database row written under an older deck file may still carry
CardNames == 1..NCards
StaleName == NCards + 1
Days == 1..MaxDay

\* ------------------------------------------------------------------ tones
DEFAULT_TONE == "quick"

TONE_SPECS ==
    [quick  |-> <<"quick", "call_to_action">>,
     poetic |-> <<"poetic_hint", "meaning", "mantra", "call_to_action">>,
     direct |-> <<"reader_voice", "tell", "do_dont", "prescription", "watch_for",
                  "pitfall", "questions", "next_24h", "call_to_action">>,
     shadow |-> <<"reader_voice", "tell", "shadow", "watch_for", "pitfall",
                  "questions", "call_to_action">>,
     love   |-> <<"reader_voice", "tell", "relationships", "green_red", "pitfall",
                  "questions", "call_to_action">>,
     work   |-> <<"reader_voice", "tell", "work", "prescription", "watch_for",
                  "next_24h", "call_to_action">>,
     money  |-> <<"reader_voice", "tell", "money", "prescription", "watch_for",
                  "next_24h", "call_to_action">>,
     full   |-> <<"reader_voice", "tell", "meaning", "mantra", "do_dont",
                  "prescription", "watch_for", "pitfall", "shadow", "green_red",
                  "questions", "next_24h", "call_to_action">>]

\* Python's None where a tone string is expected
None == "<None>"

\* (tone or "").lower().strip() on the raw strings the model feeds in
lower_strip(tone) ==
    CASE tone = None -> ""
      [] tone = " Full " -> "full"
      [] tone = "POETIC" -> "poetic"
      [] OTHER -> tone

\* a plausible slip: the cleaned string is returned whether known or not
normalize_tone_unchecked(tone) == lower_strip(tone)

normalize_tone(tone) ==
    LET t == lower_strip(tone)
    IN  IF t \in DOMAIN TONE_SPECS THEN t ELSE DEFAULT_TONE

VARIABLES
    tarot_cards,            \* the deck list, in its current order
    user_intentions,        \* dict user id -> intention text
    MYSTERY_STATE,          \* dict user id -> {name, is_reversed, ts}
    tarot_user_prefs,       \* table: user_id (primary key) -> tone
    tarot_user_settings,    \* table: user_id (primary key) -> two booleans
    tarot_reading_history,  \* table rows in insertion (id / created_at) order
    tarot_daily_card,       \* table rows {user_id, day, card_name, orientation}
    today,                  \* _today_local_date()
    now,                    \* time.time()
    tasks,                  \* the handler coroutines in flight
    last_op,                \* observer: the latest step that touched each
                            \* user's MYSTERY_STATE entry, and the task that
                            \* took it ("reveal_done_late": a reveal finished
                            \* after another such step of the user)
    reveal_emits,           \* observer: reveals that emitted the entry of ts
    reopened                \* observer: users who opted in to history again
                            \* while rows logged before were still stored

vars == <<tarot_cards, user_intentions, MYSTERY_STATE, tarot_user_prefs,
          tarot_user_settings, tarot_reading_history, tarot_daily_card,
          today, now, tasks, last_op, reveal_emits, reopened>>

session == <<user_intentions, MYSTERY_STATE>>
database == <<tarot_user_prefs, tarot_user_settings, tarot_reading_history,
              tarot_daily_card>>
observers == <<last_op, reveal_emits, reopened>>

\* ---------------------------------------------------------------- helpers
DeckOrders(n) ==
    {p \in [1..n -> 1..n] : \A i, j \in 1..n : i # j => p[i] # p[j]}

\* dict.pop(key, None)
Pop(d, k) == [x \in DOMAIN d \ {k} |-> d[x]]

\* a plausible slip: d.setdefault(key, value)
Put_if_absent(d, k, v) ==
    [x \in DOMAIN d \cup {k} |-> IF x \in DOMAIN d THEN d[x] ELSE v]

\* d[key] = value
Put(d, k, v) == [x \in DOMAIN d \cup {k} |-> IF x = k THEN v ELSE d[x]]

\* what a handler delivers: a single card, or the cards of a spread, or the
\* rows of /history, or a plain notice
NoResp ==
    [kind |-> "", card |-> 0, orientation |-> "", cards |-> <<>>, tone |-> "",
     rows |-> <<>>, text |-> <<>>, embeds |-> <<>>, intention |-> 0]

Reading(kind, card, orientation, tone) ==
    [kind |-> kind, card |-> card, orientation |-> orientation, cards |-> <<>>,
     tone |-> tone, rows |-> <<>>, text |-> <<>>, embeds |-> <<>>, intention |-> 0]

Notice(kind) == [NoResp EXCEPT !.kind = kind]

\* (over: the ts of the unrevealed entry that the step, or the /mystery the
\* reveals since then follow, overwrote; 0 if none)
NoOp == [op |-> "none", by |-> 0, card |-> 0, is_reversed |-> FALSE, over |-> 0]

Op(name) == [NoOp EXCEPT !.op = name]

IdleTask ==
    [pc |-> "idle", cmd |-> "", user |-> 0, day |-> 0, state |-> {},
     found |-> FALSE, log_ok |-> FALSE, erased |-> {}, prev |-> NoOp,
     arg |-> 0, resp |-> NoResp]

\* ------------------------------------------------------- database reads
get_user_tone(user_id) ==
    IF user_id \in DOMAIN tarot_user_prefs
    THEN normalize_tone(tarot_user_prefs[user_id])
    ELSE DEFAULT_TONE

get_effective_tone(user_id) == get_user_tone(user_id)

get_user_settings(user_id) ==
    IF user_id \in DOMAIN tarot_user_settings
    THEN tarot_user_settings[user_id]
    ELSE [history_opt_in |-> FALSE, images_enabled |-> TRUE]

HistoryRow(user_id, command, tone, card, orientation) ==
    [user_id |-> user_id, command |-> command, tone |-> tone,
     card |-> card, orientation |-> orientation, cards |-> <<>>]

\* a plausible slip: the opt-in test left out
log_history_always(history, row, settings, db_ok) ==
    IF ~db_ok THEN history ELSE Append(history, row)

\* a plausible slip: one row per user, replaced by the newest reading
log_history_replacing(history, row, settings, db_ok) ==
    IF ~db_ok THEN history
    ELSE IF ~settings.history_opt_in THEN history
    ELSE Append(SelectSeq(history, LAMBDA r : r.user_id # row.user_id), row)

\* a plausible slip: the failure is raised after the row was committed
log_history_kept_on_failure(history, row, settings, db_ok) ==
    IF ~settings.history_opt_in THEN history ELSE Append(history, row)

\* the table after log_history_if_opted_in; db_ok = FALSE is the insert (or
\* the connection) raising, which the function catches
log_history_if_opted_in(history, row, settings, db_ok) ==
    IF ~db_ok THEN history
    ELSE IF ~settings.history_opt_in THEN history
    ELSE Append(history, row)

find_card_by_name(name) ==
    IF \E i \in DOMAIN tarot_cards : tarot_cards[i] = name THEN {name} ELSE {}

\* a plausible slip: the flag read the wrong way round
reveal_orientation_flipped(is_reversed) ==
    IF is_reversed THEN "Upright" ELSE "Reversed"

\* "orientation = 'Reversed' if is_reversed else 'Upright'"
reveal_orientation(is_reversed) == IF is_reversed THEN "Reversed" ELSE "Upright"

\* ------------------------------------------------------------------- Init
\* the process has just started: the two dicts are empty, nothing is in flight;
\* the database is the one the deployment already had
Loaded(deck, settings_rows, daily_rows, history_rows) ==
    /\ tarot_cards = deck
    /\ user_intentions = <<>>
    /\ MYSTERY_STATE = <<>>
    /\ tarot_user_prefs = <<>>
    /\ tarot_user_settings = settings_rows
    /\ tarot_reading_history = history_rows
    /\ tarot_daily_card = daily_rows
    /\ today = 1
    /\ now = 1
    /\ tasks = [t \in Tasks |-> IdleTask]
    /\ last_op = [u \in Users |-> NoOp]
    /\ reveal_emits = [ts \in 1..MaxTs |-> 0]
    /\ reopened = {}

\* the deck file holds the cards 1..NCards, no reading was logged yet
Started(daily_rows) == Loaded([i \in 1..NCards |-> i], <<>>, daily_rows, <<>>)

\* a first deployment: empty tables
Init == Started({})

\* --------------------------------------------------------------- dispatch
\* discord.py starts the handler coroutine; it runs up to "await safe_defer"
\* (the command's arguments are read by its body)
Invoke(t, u, cmd) ==
    /\ tasks[t].pc = "idle"
    /\ tasks' = [tasks EXCEPT ![t] =
                    [IdleTask EXCEPT !.pc = "defer", !.cmd = cmd, !.user = u]]
    /\ UNCHANGED <<tarot_cards, session, database, today, now, observers>>

\* safe_defer returned False ("if not await safe_defer(...): return")
DeferFail(t) ==
    /\ tasks[t].pc = "defer"
    /\ tasks' = [tasks EXCEPT ![t] = IdleTask]
    /\ UNCHANGED <<tarot_cards, session, database, today, now, observers>>

AtBody(t, cmd) == tasks[t].pc = "defer" /\ tasks[t].cmd = cmd

Sending(t, resp) == [tasks[t] EXCEPT !.pc = "send", !.resp = resp]

\* send_ephemeral returned (or raised) in a handler with nothing after it
Done(t) ==
    /\ tasks[t].pc = "send"
    /\ tasks[t].cmd # "reveal"
    /\ tasks' = [tasks EXCEPT ![t] = IdleTask]
    /\ UNCHANGED <<tarot_cards, session, database, today, now, observers>>

\* ---------------------------------------------------------------- /mystery
mystery_entry(card, is_reversed, ts) ==
    [name |-> card, is_reversed |-> is_reversed, ts |-> ts]

MysteryBody(t) ==
    /\ AtBody(t, "mystery")
    /\ now <= MaxTs
    /\ \E card \in CardNames, is_reversed \in BOOLEAN :
        LET u == tasks[t].user IN
        /\ MYSTERY_STATE' = Put(MYSTERY_STATE, u, mystery_entry(card, is_reversed, now))
        /\ now' = now + 1
        /\ tasks' = [tasks EXCEPT ![t] =
                        Sending(t, Reading("mystery", card,
                                           IF is_reversed THEN "Reversed" ELSE "",
                                           ""))]
        /\ last_op' = [last_op EXCEPT ![u] =
                        [op |-> "mystery", by |-> t, card |-> card,
                         is_reversed |-> is_reversed,
                         over |-> IF u \in DOMAIN MYSTERY_STATE
                                     /\ reveal_emits[MYSTERY_STATE[u].ts] = 0
                                  THEN MYSTERY_STATE[u].ts ELSE 0]]
    /\ UNCHANGED <<tarot_cards, user_intentions, database, today, reveal_emits, reopened>>

\* ----------------------------------------------------------------- /reveal
\* "state = MYSTERY_STATE.get(interaction.user.id)"
reveal_read(user_id) ==
    IF user_id \in DOMAIN MYSTERY_STATE THEN {MYSTERY_STATE[user_id]} ELSE {}

\* observer: the body of a reveal of task t has run after the step "latest"
FollowingReveal(t, latest) ==
    [Op("reveal") EXCEPT !.by = t,
                         !.over = IF latest.op \in {"mystery", "reveal"}
                                  THEN latest.over ELSE 0]

\* lines 1710-1756: from the read of the entry to the await of the delivery
RevealBody(t) ==
    /\ AtBody(t, "reveal")
    /\ LET u == tasks[t].user
           state == reveal_read(u)
       IN
       IF state = {}
       THEN /\ tasks' = [tasks EXCEPT ![t] =
                            [Sending(t, Notice("no_mystery")) EXCEPT !.prev = last_op[u]]]
            /\ last_op' = [last_op EXCEPT ![u] = FollowingReveal(t, @)]
            /\ UNCHANGED <<tarot_reading_history, reveal_emits>>
       ELSE LET s == CHOOSE e \in state : TRUE
                card == find_card_by_name(s.name)
            IN
            IF card = {}
            THEN /\ tasks' = [tasks EXCEPT ![t] =
                                [Sending(t, Notice("lost_track"))
                                    EXCEPT !.state = state, !.prev = last_op[u]]]
                 /\ last_op' = [last_op EXCEPT ![u] = FollowingReveal(t, @)]
                 /\ UNCHANGED <<tarot_reading_history, reveal_emits>>
            ELSE \E db_ok \in BOOLEAN :
                 LET tone == get_effective_tone(u)
                     orientation == reveal_orientation(s.is_reversed)
                     settings == get_user_settings(u)
                     row == HistoryRow(u, "reveal", tone, s.name, orientation)
                 IN
                 /\ settings.history_opt_in => Len(tarot_reading_history) < MaxHistory
                 /\ tarot_reading_history' =
                        log_history_if_opted_in(tarot_reading_history, row,
                                                settings, db_ok)
                 /\ tasks' = [tasks EXCEPT ![t] =
                                [Sending(t, Reading("reveal", s.name, orientation, tone))
                                    EXCEPT !.state = state, !.prev = last_op[u],
                                           !.log_ok = db_ok]]
                 /\ reveal_emits' = [reveal_emits EXCEPT ![s.ts] = @ + 1]
                 /\ last_op' = [last_op EXCEPT ![u] = FollowingReveal(t, @)]
    /\ UNCHANGED <<tarot_cards, session, tarot_user_prefs, tarot_user_settings,
                   tarot_daily_card, today, now, reopened>>

\* a plausible slip: the finally clears the entry only while it is still the
\* one this reveal read
reveal_finally_own(state, user_id) ==
    IF reveal_read(user_id) # {} /\ reveal_read(user_id) \subseteq state
    THEN Pop(MYSTERY_STATE, user_id) ELSE MYSTERY_STATE

\* "finally: MYSTERY_STATE.pop(interaction.user.id, None)"; the early return
\* of the nothing-pending branch is before the try and pops nothing
reveal_finally(state, user_id) ==
    IF state = {} THEN MYSTERY_STATE ELSE Pop(MYSTERY_STATE, user_id)

RevealDone(t) ==
    /\ tasks[t].pc = "send"
    /\ tasks[t].cmd = "reveal"
    /\ MYSTERY_STATE' = reveal_finally(tasks[t].state, tasks[t].user)
    /\ last_op' = [last_op EXCEPT ![tasks[t].user] =
                        IF @.op = "reveal" /\ @.by = t THEN Op("reveal_done")
                        ELSE Op("reveal_done_late")]
    /\ tasks' = [tasks EXCEPT ![t] = IdleTask]
    /\ UNCHANGED <<tarot_cards, user_intentions, database, today, now,
                   reveal_emits, reopened>>

\* ---------------------------------------------------------------- /shuffle
\* a plausible slip: the DELETE never committed
reset_user_tone_kept(user_id) == tarot_user_prefs

\* a plausible slip: the WHERE clause left out of the DELETE
reset_user_tone_all(user_id) == <<>>

\* DELETE FROM tarot_user_prefs WHERE user_id=%s
reset_user_tone(user_id) == Pop(tarot_user_prefs, user_id)

ShuffleBody(t) ==
    /\ AtBody(t, "shuffle")
    /\ LET u == tasks[t].user IN
       /\ user_intentions' = Pop(user_intentions, u)
       /\ MYSTERY_STATE' = Pop(MYSTERY_STATE, u)
       /\ tarot_user_prefs' = reset_user_tone(u)
       /\ \E p \in DeckOrders(Len(tarot_cards)) :
            tarot_cards' = [i \in 1..Len(tarot_cards) |-> tarot_cards[p[i]]]
       /\ last_op' = [last_op EXCEPT ![u] = Op("shuffle")]
       /\ tasks' = [tasks EXCEPT ![t] =
                       [Sending(t, Notice("cleanse_complete"))
                           EXCEPT !.erased = IF u \in DOMAIN tarot_user_prefs
                                             THEN {"tone"} ELSE {}]]
    /\ UNCHANGED <<tarot_user_settings, tarot_reading_history, tarot_daily_card,
                   today, now, reveal_emits, reopened>>

\* --------------------------------------------------------------- /forgetme
\* a plausible slip: the DELETE FROM tarot_reading_history left out
forget_history_kept(user_id) == tarot_reading_history

\* the three DELETEs of the one transaction
forget_history(user_id) ==
    SelectSeq(tarot_reading_history, LAMBDA r : r.user_id # user_id)

\* the kinds of record that exist for the user
Holds(user_id) ==
    {k \in {"tone", "settings", "history", "intention", "mystery"} :
        \/ k = "tone" /\ user_id \in DOMAIN tarot_user_prefs
        \/ k = "settings" /\ user_id \in DOMAIN tarot_user_settings
        \/ k = "history" /\ \E i \in DOMAIN tarot_reading_history :
                                tarot_reading_history[i].user_id = user_id
        \/ k = "intention" /\ user_id \in DOMAIN user_intentions
        \/ k = "mystery" /\ user_id \in DOMAIN MYSTERY_STATE}

ForgetBody(t) ==
    /\ AtBody(t, "forgetme")
    /\ LET uid == tasks[t].user IN
       /\ tarot_user_prefs' = Pop(tarot_user_prefs, uid)
       /\ tarot_user_settings' = Pop(tarot_user_settings, uid)
       /\ tarot_reading_history' = forget_history(uid)
       /\ user_intentions' = Pop(user_intentions, uid)
       /\ MYSTERY_STATE' = Pop(MYSTERY_STATE, uid)
       /\ last_op' = [last_op EXCEPT ![uid] = Op("forgetme")]
       /\ reopened' = reopened \ {uid}
       /\ tasks' = [tasks EXCEPT ![t] =
                       [Sending(t, Notice("data_deleted")) EXCEPT !.erased = Holds(uid)]]
    /\ UNCHANGED <<tarot_cards, tarot_daily_card, today, now, reveal_emits>>

\* ----------------------------------------------------------- /cardoftheday
\* SELECT ... WHERE user_id=%s AND day=%s; fetchone()
get_daily_card_row(user_id, day) ==
    {r \in tarot_daily_card : r.user_id = user_id /\ r.day = day}

DailyRow(user_id, day, card_name, orientation) ==
    [user_id |-> user_id, day |-> day, card_name |-> card_name,
     orientation |-> orientation]

\* a plausible slip: ON CONFLICT (user_id, day) DO UPDATE
set_daily_card_row_upsert(user_id, day, card_name, orientation) ==
    (tarot_daily_card \ get_daily_card_row(user_id, day))
        \cup {DailyRow(user_id, day, card_name, orientation)}

\* a plausible slip: the INSERT is never committed
set_daily_card_row_lost(user_id, day, card_name, orientation) ==
    tarot_daily_card

\* INSERT ... ON CONFLICT (user_id, day) DO NOTHING, on the table whose
\* primary key is (user_id, day)
set_daily_card_row(user_id, day, card_name, orientation) ==
    IF get_daily_card_row(user_id, day) # {}
    THEN tarot_daily_card
    ELSE tarot_daily_card \cup {DailyRow(user_id, day, card_name, orientation)}

\* lines 1234-1284: the daily card, its rendering and the history row
CardOfTheDayBody(t) ==
    /\ AtBody(t, "cardoftheday")
    /\ \E drawn \in CardNames, drawn_orientation \in {"Upright", "Reversed"},
          db_ok \in BOOLEAN :
        LET u == tasks[t].user
            day == today
            row == get_daily_card_row(u, day)
            stored == CHOOSE r \in row : TRUE
            cached == IF row = {} THEN {} ELSE find_card_by_name(stored.card_name)
            redraw == cached = {}
            card == IF redraw THEN drawn ELSE stored.card_name
            orientation == IF redraw THEN drawn_orientation ELSE stored.orientation
            tone == get_effective_tone(u)
            settings == get_user_settings(u)
            hrow == HistoryRow(u, "cardoftheday", tone, card, orientation)
        IN
        /\ settings.history_opt_in => Len(tarot_reading_history) < MaxHistory
        /\ tarot_daily_card' =
              IF redraw THEN set_daily_card_row(u, day, card, orientation)
              ELSE tarot_daily_card
        /\ tarot_reading_history' =
              log_history_if_opted_in(tarot_reading_history, hrow, settings, db_ok)
        /\ tasks' = [tasks EXCEPT ![t] =
                        [Sending(t, Reading("cardoftheday", card, orientation, tone))
                            EXCEPT !.day = day, !.found = (row # {}),
                                   !.log_ok = db_ok]]
    /\ UNCHANGED <<tarot_cards, session, tarot_user_prefs, tarot_user_settings,
                   today, now, observers>>

\* midnight in America/Chicago passes
NextDay ==
    /\ today < MaxDay
    /\ today' = today + 1
    /\ UNCHANGED <<tarot_cards, session, database, now, tasks, observers>>

\* ------------------------------------------------------------------ /tone
\* a plausible slip: the string is written as it came
set_user_tone_raw(user_id, tone) == Put(tarot_user_prefs, user_id, tone)

\* INSERT ... ON CONFLICT (user_id) DO UPDATE SET tone = EXCLUDED.tone
set_user_tone(user_id, tone) == Put(tarot_user_prefs, user_id, normalize_tone(tone))

\* the values /tone is fed with here (Discord offers the eight known ones)
ToneChoices == {"full", "shadow"}

ToneBody(t) ==
    /\ AtBody(t, "tone")
    /\ \E tone \in ToneChoices :
        LET u == tasks[t].user IN
        /\ tarot_user_prefs' = set_user_tone(u, tone)
        /\ tasks' = [tasks EXCEPT ![t] =
                        Sending(t, [Notice("tone_set") EXCEPT !.tone = normalize_tone(tone)])]
    /\ UNCHANGED <<tarot_cards, session, tarot_user_settings, tarot_reading_history,
                   tarot_daily_card, today, now, observers>>

\* -------------------------------------------------------------- /settings
\* "None if history is None else (history.value == 'on')": the merge of
\* set_user_settings keeps the current value of an option that is None
\* a plausible slip: an option that was not given is written as off
merged_none_is_off(choice, current) == choice = "on"

merged(choice, current) == IF choice = "none" THEN current ELSE choice = "on"

\* a plausible slip: the options not given are taken from the defaults, not
\* from the stored row
set_user_settings_from_defaults(user_id, history, images) ==
    Put(tarot_user_settings, user_id,
        [history_opt_in |-> merged(history, FALSE),
         images_enabled |-> merged(images, TRUE)])

set_user_settings(user_id, history, images) ==
    LET current == get_user_settings(user_id)
    IN  Put(tarot_user_settings, user_id,
            [history_opt_in |-> merged(history, current.history_opt_in),
             images_enabled |-> merged(images, current.images_enabled)])

UserRows(history, user_id) == SelectSeq(history, LAMBDA r : r.user_id = user_id)

\* the two optional arguments of /settings: not given, "on" or "off"
SettingsArgs ==
    LET option == <<"none", "on", "off">>
    IN  [k \in 1..9 |-> <<option[((k - 1) \div 3) + 1], option[((k - 1) % 3) + 1]>>]

SettingsBody(t) ==
    /\ AtBody(t, "settings")
    /\ \E k \in DOMAIN SettingsArgs :
        LET u == tasks[t].user
            history == SettingsArgs[k][1]
            images == SettingsArgs[k][2]
            was_on == get_user_settings(u).history_opt_in
        IN
        /\ tarot_user_settings' = set_user_settings(u, history, images)
        /\ tasks' = [tasks EXCEPT ![t] =
                        [Sending(t, [Notice("settings_saved") EXCEPT
                                        !.rows = <<tarot_user_settings'[u]>>])
                            EXCEPT !.arg = k]]
        /\ reopened' =
              IF ~was_on /\ history = "on" /\ UserRows(tarot_reading_history, u) # <<>>
              THEN reopened \cup {u}
              ELSE reopened
    /\ UNCHANGED <<tarot_cards, session, tarot_user_prefs, tarot_reading_history,
                   tarot_daily_card, today, now, last_op, reveal_emits>>

\* ---------------------------------------------------------------- /intent
MaxIntentions == 1
Intentions == 1..MaxIntentions

IntentBody(t) ==
    /\ AtBody(t, "intent")
    /\ \E intention \in Intentions \cup {0} :
        LET u == tasks[t].user IN
        /\ user_intentions' =
              IF intention = 0 THEN user_intentions
              ELSE Put(user_intentions, u, intention)
        /\ tasks' = [tasks EXCEPT ![t] =
                        Sending(t, IF intention # 0
                                   THEN [Notice("intention_set")
                                            EXCEPT !.intention = intention]
                                   ELSE IF u \in DOMAIN user_intentions
                                        THEN [Notice("intention_is")
                                                EXCEPT !.intention = user_intentions[u]]
                                        ELSE Notice("no_intention"))]
    /\ UNCHANGED <<tarot_cards, MYSTERY_STATE, database, today, now, observers>>

\* --------------------------------------------------------------- /history
HISTORY_DEFAULT_LIMIT == 10
HISTORY_MAX_LIMIT == 20

Min(a, b) == IF a < b THEN a ELSE b
Max(a, b) == IF a > b THEN a ELSE b

\* a plausible slip: the upper clamp left out
history_limit_unclamped(limit) ==
    IF limit = -1 THEN HISTORY_DEFAULT_LIMIT ELSE Max(1, limit)

\* "limit = 10 if limit is None else max(1, min(int(limit), 20))"; -1 is None
history_limit(limit) ==
    IF limit = -1 THEN HISTORY_DEFAULT_LIMIT
    ELSE Max(1, Min(limit, HISTORY_MAX_LIMIT))

Reverse(seq) == [i \in 1..Len(seq) |-> seq[Len(seq) + 1 - i]]

\* a plausible slip: the WHERE user_id=%s left out
fetch_history_any_user(user_id, limit) ==
    LET newest_first == Reverse(tarot_reading_history)
    IN  SubSeq(newest_first, 1, Min(limit, Len(newest_first)))

\* a plausible slip: ORDER BY created_at ASC
fetch_history_oldest_first(user_id, limit) ==
    LET oldest_first == UserRows(tarot_reading_history, user_id)
    IN  SubSeq(oldest_first, 1, Min(limit, Len(oldest_first)))

\* SELECT ... WHERE user_id=%s ORDER BY created_at DESC LIMIT %s
fetch_history(user_id, limit) ==
    LET newest_first == Reverse(UserRows(tarot_reading_history, user_id))
    IN  SubSeq(newest_first, 1, Min(limit, Len(newest_first)))

\* a plausible slip: the opt-in gate of /history left out
history_reply_ungated(user_id, limit) ==
    LET rows == fetch_history(user_id, history_limit(limit))
    IN  IF rows = <<>> THEN Notice("no_saved_readings")
        ELSE [Notice("history") EXCEPT !.rows = rows]

\* lines 1179-1227: what /history answers
history_reply(user_id, limit) ==
    IF ~get_user_settings(user_id).history_opt_in THEN Notice("history_off")
    ELSE LET rows == fetch_history(user_id, history_limit(limit))
         IN  IF rows = <<>> THEN Notice("no_saved_readings")
             ELSE [Notice("history") EXCEPT !.rows = rows]

\* the limit argument: None, below the minimum, in range, above the maximum
HistoryLimits == {-1, 0, 1, HISTORY_MAX_LIMIT + 5}

HistoryBody(t) ==
    /\ AtBody(t, "history")
    /\ \E limit \in HistoryLimits :
        LET u == tasks[t].user IN
        /\ tasks' = [tasks EXCEPT ![t] =
                        [Sending(t, history_reply(u, limit)) EXCEPT !.arg = limit]]
    /\ UNCHANGED <<tarot_cards, session, database, today, now, observers>>

\* ------------------------------------------------- the mystery/reveal flow
MysteryCmds == {"mystery", "reveal", "shuffle", "forgetme"}

NextMystery ==
    \E t \in Tasks :
        \/ \E u \in Users, cmd \in MysteryCmds : Invoke(t, u, cmd)
        \/ DeferFail(t)
        \/ MysteryBody(t)
        \/ RevealBody(t)
        \/ RevealDone(t)
        \/ ShuffleBody(t)
        \/ ForgetBody(t)
        \/ Done(t)

SpecMystery == Init /\ [][NextMystery]_vars

RevealsInFlight == {t \in Tasks : tasks[t].pc = "send" /\ tasks[t].cmd = "reveal"}

\* C1: per user the mystery flow is the machine {NoPending, Pending}.  A
\* /reveal whose user's latest step was a /mystery storing (c, o) emits exactly
\* c with the orientation of o; a /reveal whose user's latest step left nothing
\* pending (no step yet, a finished reveal, a shuffle, a forget) emits no card
\* and reports that nothing is pending; and a finished reveal leaves the user
\* without a pending entry.
C1_MysteryThenReveal ==
    /\ \A t \in RevealsInFlight :
        /\ tasks[t].prev.op = "mystery" =>
              /\ tasks[t].resp.kind = "reveal"
              /\ tasks[t].resp.card = tasks[t].prev.card
              /\ tasks[t].resp.orientation =
                    (IF tasks[t].prev.is_reversed THEN "Reversed" ELSE "Upright")
        /\ tasks[t].prev.op \in {"none", "reveal_done", "shuffle", "forgetme"} =>
              /\ tasks[t].resp.kind = "no_mystery"
              /\ tasks[t].resp.card = 0
    /\ \A u \in Users :
          last_op[u].op = "reveal_done" => u \notin DOMAIN MYSTERY_STATE

\* a reveal is delivering the reversed card that the user's /mystery stored
C1_Witness ==
    \E t \in RevealsInFlight :
        /\ tasks[t].prev.op = "mystery"
        /\ tasks[t].prev.is_reversed
        /\ tasks[t].resp.kind = "reveal"

\* C2: one pending mystery (the entry stored at time ts) is emitted by at most
\* one /reveal, however the reveals of its user overlap.
C2_EmittedAtMostOnce == \A ts \in 1..MaxTs : reveal_emits[ts] <= 1

\* ------------------------------------------------------- the daily card
\* rows a deployment may hold from before the deck file was edited: the code
\* expects them ("If your deck JSON changed and the name doesn't match anymore")
StaleRows == {DailyRow(u, 1, StaleName, "Upright") : u \in Users}

InitDaily == \E rows \in SUBSET StaleRows : Started(rows)

DailyCmds == {"cardoftheday", "forgetme"}

NextDaily ==
    \/ \E t \in Tasks :
        \/ \E u \in Users, cmd \in DailyCmds : Invoke(t, u, cmd)
        \/ DeferFail(t)
        \/ CardOfTheDayBody(t)
        \/ ForgetBody(t)
        \/ Done(t)
    \/ NextDay

SpecDaily == InitDaily /\ [][NextDaily]_vars

\* ------------------------------------------------------ the history log
HistoryCmds == {"settings", "cardoftheday", "history"}

\* None of these handlers does anything after its delivery, so running them
\* one at a time loses no outcome of their overlap.
OneAtATime == {1}

NextHistory ==
    \E t \in OneAtATime :
        \/ \E u \in Users, cmd \in HistoryCmds : Invoke(t, u, cmd)
        \/ DeferFail(t)
        \/ SettingsBody(t)
        \/ CardOfTheDayBody(t)
        \/ HistoryBody(t)
        \/ Done(t)

SpecHistory == Init /\ [][NextHistory]_vars

\* ------------------------------------------------------------ forgetting
ForgetCmds == {"tone", "settings", "intent", "mystery", "cardoftheday", "forgetme"}

NextForget ==
    \E t \in OneAtATime :
        \/ \E cmd \in ForgetCmds : Invoke(t, 1, cmd)
        \/ DeferFail(t)
        \/ ToneBody(t)
        \/ SettingsBody(t)
        \/ IntentBody(t)
        \/ MysteryBody(t)
        \/ CardOfTheDayBody(t)
        \/ ForgetBody(t)
        \/ Done(t)

SpecForget == Init /\ [][NextForget]_vars

DailyInFlight ==
    {t \in Tasks : tasks[t].pc = "send" /\ tasks[t].cmd = "cardoftheday"}

\* the reading that t delivers is the row stored under its (user, day)
ShowsStored(t) ==
    /\ get_daily_card_row(tasks[t].user, tasks[t].day) # {}
    /\ \A r \in get_daily_card_row(tasks[t].user, tasks[t].day) :
          /\ tasks[t].resp.card = r.card_name
          /\ tasks[t].resp.orientation = r.orientation

\* C3: once a record exists for (user, day), every /cardoftheday for that key
\* shows the stored card name and the stored orientation, never a fresh draw.
C3_CachedCardShown == \A t \in DailyInFlight : tasks[t].found => ShowsStored(t)

SameKey(r1, r2) == r1.user_id = r2.user_id /\ r1.day = r2.day

\* C4: a stored daily-card row is never changed or removed, and no step
\* leaves two rows under one (user, day).
C4_DailyRowStable ==
    [][/\ \A r \in tarot_daily_card : r \in tarot_daily_card'
       /\ \A r1, r2 \in tarot_daily_card' : SameKey(r1, r2) => r1 = r2]_vars

\* a /cardoftheday drew a card for a key that already had a row, and ran its
\* insert against that row
C4_Witness ==
    \E t \in DailyInFlight :
        /\ tasks[t].found
        /\ \E r \in get_daily_card_row(tasks[t].user, tasks[t].day) :
              r.card_name # tasks[t].resp.card

\* C5: a /cardoftheday that found no record for its (user, day) shows the
\* card and the orientation of the one record now stored under that key.
C5_FirstDrawIsStored == \A t \in DailyInFlight : ~tasks[t].found => ShowsStored(t)

\* two /cardoftheday handlers of one user are in flight for the same day, the
\* first found no record, and both deliver the same card
C5_Witness ==
    \E t1, t2 \in DailyInFlight :
        /\ t1 # t2
        /\ tasks[t1].user = tasks[t2].user /\ tasks[t1].day = tasks[t2].day
        /\ ~tasks[t1].found /\ tasks[t2].found
        /\ tasks[t1].resp.card = tasks[t2].resp.card
        /\ tasks[t1].resp.orientation = tasks[t2].resp.orientation

\* ---------------------------------------------------------------- steps
\* the step in which handler t of command cmd runs its body
BodyStep(t, cmd) ==
    /\ tasks[t].pc = "defer"
    /\ tasks[t].cmd = cmd
    /\ tasks'[t].pc = "send"

\* the body called log_history_if_opted_in
LoggingStep(t) ==
    \/ BodyStep(t, "cardoftheday")
    \/ BodyStep(t, "reveal") /\ tasks'[t].resp.kind = "reveal"

OptedIn(user_id) == get_user_settings(user_id).history_opt_in

RowsOf(user_id) == UserRows(tarot_reading_history, user_id)

\* the row the handler's reading would be logged as
RowOf(task) ==
    HistoryRow(task.user, task.resp.kind, task.resp.tone, task.resp.card,
               task.resp.orientation)

\* C6 as claimed: a call of logHistory appends one row of the user exactly
\* when the user's history_opt_in is true at that moment.
C6_LoggedExactlyWhenOptedIn ==
    [][\A t \in Tasks : LoggingStep(t) =>
          Len(RowsOf(tasks[t].user)') =
              Len(RowsOf(tasks[t].user)) + (IF OptedIn(tasks[t].user) THEN 1 ELSE 0)]_vars

\* C6 as amended: a call of logHistory appends its row exactly when the user's
\* history_opt_in is true at that moment and the insert does not fail, and
\* changes nothing otherwise; no step adds a row of a user whose opt-in is false.
C6_LoggedWhenOptedInAndInserted ==
    [][/\ \A t \in Tasks : LoggingStep(t) =>
            tarot_reading_history' =
                IF OptedIn(tasks[t].user) /\ tasks'[t].log_ok
                THEN Append(tarot_reading_history, RowOf(tasks'[t]))
                ELSE tarot_reading_history
       /\ \A u \in Users :
            ~OptedIn(u) => Len(RowsOf(u)') <= Len(RowsOf(u))]_vars

\* an opted-in user's /cardoftheday is being delivered and its row is the
\* newest of the table
C6_Witness ==
    \E t \in DailyInFlight :
        /\ tasks[t].log_ok
        /\ OptedIn(tasks[t].user)
        /\ tarot_reading_history # <<>>
        /\ tarot_reading_history[Len(tarot_reading_history)] = RowOf(tasks[t])

\* the user's stored rows, newest first, cut to what the limit allows
NewestRows(user_id, limit) ==
    LET rows == RowsOf(user_id)
        n == Min(history_limit(limit), Len(rows))
    IN  [i \in 1..n |-> rows[Len(rows) + 1 - i]]

\* C7 as claimed: what the history command returns does not depend on the
\* user's current setting: it is the user's stored entries (those logged while
\* opted in), also after the user has switched history_opt_in to false.
C7_ReturnedWhateverTheSetting ==
    [][\A t \in Tasks : BodyStep(t, "history") =>
          \E limit \in HistoryLimits :
              tasks'[t].resp.rows = NewestRows(tasks[t].user, limit)]_vars

\* C7 as amended: an entry logged while opted in stays stored whatever the
\* user sets afterwards, and the history command returns the stored entries
\* whenever the user's current history_opt_in is true (also after switching it
\* off and on again); a call of logHistory made while opted out stores nothing.
C7_StoredWhateverTheSetting ==
    [][\A t \in Tasks :
        /\ BodyStep(t, "settings") => tarot_reading_history' = tarot_reading_history
        /\ BodyStep(t, "history") /\ OptedIn(tasks[t].user) =>
              \E limit \in HistoryLimits :
                  tasks'[t].resp.rows = NewestRows(tasks[t].user, limit)
        /\ LoggingStep(t) /\ ~OptedIn(tasks[t].user) =>
              tarot_reading_history' = tarot_reading_history]_vars

\* /history is returning entries to a user who had switched the opt-in off and
\* on again after they were logged
C7_Witness ==
    \E t \in Tasks :
        /\ tasks[t].pc = "send" /\ tasks[t].cmd = "history"
        /\ tasks[t].user \in reopened
        /\ tasks[t].resp.rows # <<>>

\* C8: whenever the user's current history_opt_in is false, the history
\* command returns no entries, whatever rows are stored for the user.
C8_NothingReturnedWhenOptedOut ==
    [][\A t \in Tasks : BodyStep(t, "history") /\ ~OptedIn(tasks[t].user) =>
          /\ tasks'[t].resp.rows = <<>>
          /\ tasks'[t].resp.kind = "history_off"]_vars

\* /history is answering "history is off" to a user who has stored rows
C8_Witness ==
    \E t \in Tasks :
        /\ tasks[t].pc = "send" /\ tasks[t].cmd = "history"
        /\ tasks[t].resp.kind = "history_off"
        /\ RowsOf(tasks[t].user) # <<>>

\* C9: right after /forgetme the user has no tone, settings or history row, no
\* intention and no pending mystery: the tone read is the default, the settings
\* read is {history_opt_in: false, images_enabled: true}, the history query is
\* empty and a reveal would find nothing.
C9_ForgetRestoresDefaults ==
    [][\A t \in Tasks : BodyStep(t, "forgetme") =>
          LET u == tasks[t].user IN
          /\ get_user_tone(u)' = "quick"
          /\ get_user_settings(u)' = [history_opt_in |-> FALSE, images_enabled |-> TRUE]
          /\ RowsOf(u)' = <<>>
          /\ u \notin DOMAIN user_intentions'
          /\ u \notin DOMAIN MYSTERY_STATE'
          /\ reveal_read(u)' = {}]_vars

\* a /forgetme has just erased a tone, settings, history rows, an intention
\* and a pending mystery
C9_Witness ==
    \E t \in Tasks :
        /\ tasks[t].pc = "send" /\ tasks[t].cmd = "forgetme"
        /\ tasks[t].erased = {"tone", "settings", "history", "intention", "mystery"}

\* C10: after /forgetme no daily-card row keyed by that user remains stored.
C10_ForgetRemovesDailyCard ==
    [][\A t \in Tasks : BodyStep(t, "forgetme") =>
          \A r \in tarot_daily_card' : r.user_id # tasks[t].user]_vars

\* ------------------------------------------------------------ the spreads
Orientations == {"Upright", "Reversed"}

\* a plausible slip: the top card is read but never popped
draw_cards_with_repeats(num_cards, shuffled, orientation) ==
    LET n == Len(tarot_cards)
        deck == [i \in 1..n |-> tarot_cards[shuffled[i]]]
    IN  [i \in 1..Min(num_cards, n) |-> <<deck[n], orientation[i]>>]

\* deck = tarot_cards.copy(); random.shuffle(deck) (the order "shuffled"); then
\* min(num_cards, len(deck)) times: deck.pop() with a random orientation
draw_unique_cards(num_cards, shuffled, orientation) ==
    LET n == Len(tarot_cards)
        deck == [i \in 1..n |-> tarot_cards[shuffled[i]]]
    IN  [i \in 1..Min(num_cards, n) |-> <<deck[n + 1 - i], orientation[i]>>]

\* every outcome of the two random calls
Draws(num_cards) ==
    {draw_unique_cards(num_cards, shuffled, orientation) :
        shuffled \in DeckOrders(Len(tarot_cards)),
        orientation \in [1..Min(num_cards, Len(tarot_cards)) -> Orientations]}

\* the embed of a spread: one field per drawn card
Spread(kind, cards, tone) == [Reading(kind, 0, "", tone) EXCEPT !.cards = cards]

\* payload {"spread": ..., "cards": [{position, name, orientation}, ...]}
SpreadRow(user_id, command, tone, cards) ==
    [HistoryRow(user_id, command, tone, 0, "") EXCEPT !.cards = cards]

\* user_intentions.get(user_id): the intention, 0 for None
get_intention(user_id) ==
    IF user_id \in DOMAIN user_intentions THEN user_intentions[user_id] ELSE 0

\* the part the three spread commands share: draw, log, render (intent_text:
\* the intention the embed shows, 0 for none)
SpreadBody(t, command, num_cards, intent_text) ==
    \E cards \in Draws(num_cards), db_ok \in BOOLEAN :
        LET u == tasks[t].user
            tone == get_effective_tone(u)
            settings == get_user_settings(u)
        IN
        /\ settings.history_opt_in => Len(tarot_reading_history) < MaxHistory
        /\ tarot_reading_history' =
              log_history_if_opted_in(tarot_reading_history,
                                      SpreadRow(u, command, tone, cards),
                                      settings, db_ok)
        /\ tasks' = [tasks EXCEPT ![t] =
                        [Sending(t, [Spread(command, cards, tone)
                                        EXCEPT !.intention = intent_text])
                            EXCEPT !.arg = num_cards, !.log_ok = db_ok]]

\* the texts /read is given as its intention (others than /intent is given)
ReadIntentions == {MaxIntentions + 1}

\* /read: stores the intention, then Situation, Obstacle, Guidance
ReadBody(t) ==
    /\ AtBody(t, "read")
    /\ \E intention \in ReadIntentions :
          /\ user_intentions' = Put(user_intentions, tasks[t].user, intention)
          /\ SpreadBody(t, "read", 3, intention)
    /\ UNCHANGED <<tarot_cards, MYSTERY_STATE, tarot_user_prefs, tarot_user_settings,
                   tarot_daily_card, today, now, observers>>

\* /threecard: Past, Present, Future
ThreecardBody(t) ==
    /\ AtBody(t, "threecard")
    /\ SpreadBody(t, "threecard", 3, get_intention(tasks[t].user))
    /\ UNCHANGED <<tarot_cards, session, tarot_user_prefs, tarot_user_settings,
                   tarot_daily_card, today, now, observers>>

\* /celtic: the ten positions of the Celtic Cross (the follow-up embeds after
\* the first delivery change nothing)
CelticBody(t) ==
    /\ AtBody(t, "celtic")
    /\ SpreadBody(t, "celtic", 10, 0)
    /\ UNCHANGED <<tarot_cards, session, tarot_user_prefs, tarot_user_settings,
                   tarot_daily_card, today, now, observers>>

\* --------------------------------------------------------------- /clarify
\* random.choice(tarot_cards), random.choice(["Upright", "Reversed"])
draw_card ==
    {<<tarot_cards[i], orientation>> :
        i \in DOMAIN tarot_cards, orientation \in Orientations}

\* tone_read_ok = FALSE is the SELECT of
\* get_user_tone raising: the exception leaves the handler and
\* on_app_command_error answers "A thread snagged in the weave"
ClarifyBody(t) ==
    /\ AtBody(t, "clarify")
    /\ \E drawn \in draw_card, db_ok \in BOOLEAN, tone_read_ok \in BOOLEAN :
        LET u == tasks[t].user
            tone == get_effective_tone(u)
            settings == get_user_settings(u)
            row == HistoryRow(u, "clarify", tone, drawn[1], drawn[2])
        IN
        IF ~tone_read_ok
        THEN /\ tasks' = [tasks EXCEPT ![t] = Sending(t, Notice("command_error"))]
             /\ UNCHANGED tarot_reading_history
        ELSE
        /\ settings.history_opt_in => Len(tarot_reading_history) < MaxHistory
        /\ tarot_reading_history' =
              log_history_if_opted_in(tarot_reading_history, row, settings, db_ok)
        /\ tasks' = [tasks EXCEPT ![t] =
                        [Sending(t, Reading("clarify", drawn[1], drawn[2], tone))
                            EXCEPT !.log_ok = db_ok]]
    /\ UNCHANGED <<tarot_cards, session, tarot_user_prefs, tarot_user_settings,
                   tarot_daily_card, today, now, observers>>

\* --------------------------------------------------------------- /meaning
\* A text is the sequence of its whitespace-separated words.  The deck file
\* names card 1 "The Sun", card 3 "The Sun Rising" (a name that contains
\* another card's name) and every other card c "<Number> of Cups".
NumberNames ==
    <<"One", "Two", "Three", "Four", "Five", "Six", "Seven", "Eight", "Nine", "Ten">>

NUM_WORDS ==
    [word \in {"one", "two", "three", "four", "five", "six", "seven", "eight",
               "nine", "ten"} |->
        CASE word = "one" -> "1" [] word = "two" -> "2" [] word = "three" -> "3"
          [] word = "four" -> "4" [] word = "five" -> "5" [] word = "six" -> "6"
          [] word = "seven" -> "7" [] word = "eight" -> "8" [] word = "nine" -> "9"
          [] OTHER -> "10"]

CardTitle(card) ==
    IF card = 1 THEN <<"The", "Sun">>
    ELSE IF card = 3 THEN <<"The", "Sun", "Rising">>
    ELSE <<NumberNames[card], "of", "Cups">>

\* str.lower() on the words the model uses
lower(word) ==
    CASE word = "The" -> "the" [] word = "Sun" -> "sun" [] word = "Sun!" -> "sun!"
      [] word = "Cups" -> "cups" [] word = "Moon" -> "moon"
      [] word = "Rising" -> "rising"
      [] word = "One" -> "one" [] word = "Two" -> "two" [] word = "Three" -> "three"
      [] word = "Four" -> "four" [] word = "Five" -> "five" [] word = "Six" -> "six"
      [] word = "Seven" -> "seven" [] word = "Eight" -> "eight"
      [] word = "Nine" -> "nine" [] word = "Ten" -> "ten"
      [] OTHER -> word

\* re.sub(r"[^a-z0-9\s]", "", s) on the words the model uses
only_alnum(word) ==
    CASE word = "sun!" -> "sun" [] word = "?" -> "" [] OTHER -> word

\* lower, number words to digits, punctuation removed, whitespace collapsed (a
\* word that loses every character leaves no word behind)
normalize_card_name(name) ==
    LET words == [i \in 1..Len(name) |->
                    LET w == lower(name[i])
                    IN  only_alnum(IF w \in DOMAIN NUM_WORDS THEN NUM_WORDS[w] ELSE w)]
    IN  SelectSeq(words, LAMBDA w : w # "")

\* Python's "needle in haystack" on texts
Contains(haystack, needle) ==
    \E i \in 0..(Len(haystack) - Len(needle)) :
        \A j \in 1..Len(needle) : haystack[i + j] = needle[j]

\* "matches = [c for c in tarot_cards if ... == norm_query or norm_query in ...]"
card_matches(query) ==
    LET norm_query == normalize_card_name(query)
    IN  SelectSeq(tarot_cards,
                  LAMBDA c : \/ normalize_card_name(CardTitle(c)) = norm_query
                             \/ Contains(normalize_card_name(CardTitle(c)), norm_query))

\* what users type: an exact title, a number word, a word several titles
\* share, a title of no card, a text of punctuation only
Queries ==
    << <<"The", "Sun!">>, <<"Two">>, <<"cups">>, <<"Moon">>, <<"?">> >>

\* a plausible slip: the last match taken
chosen_last(matches) == matches[Len(matches)]

\* "chosen = matches[0]"
chosen_card(matches) == matches[1]

MeaningBody(t) ==
    /\ AtBody(t, "meaning")
    /\ \E q \in DOMAIN Queries, db_ok \in BOOLEAN :
        LET u == tasks[t].user
            matches == card_matches(Queries[q])
        IN
        IF matches = <<>>
        THEN /\ tasks' = [tasks EXCEPT ![t] =
                            [Sending(t, Notice("no_card_named")) EXCEPT !.arg = q]]
             /\ UNCHANGED tarot_reading_history
        ELSE LET chosen == chosen_card(matches)
                 tone == get_effective_tone(u)
                 settings == get_user_settings(u)
                 row == HistoryRow(u, "meaning", tone, chosen, "both")
             IN
             /\ settings.history_opt_in => Len(tarot_reading_history) < MaxHistory
             /\ tarot_reading_history' =
                   log_history_if_opted_in(tarot_reading_history, row, settings, db_ok)
             /\ tasks' = [tasks EXCEPT ![t] =
                             [Sending(t, Reading("meaning", chosen, "both", tone))
                                 EXCEPT !.arg = q, !.log_ok = db_ok]]
    /\ UNCHANGED <<tarot_cards, session, tarot_user_prefs, tarot_user_settings,
                   tarot_daily_card, today, now, observers>>

\* ------------------------------------------------- the deck and its draws
\* the deck file may hold any number of cards; the spread commands draw 3 or
\* 10 of them whatever that number is
MaxDeck == 4

InitDeck == \E n \in 0..MaxDeck : Loaded([i \in 1..n |-> i], <<>>, {}, <<>>)

DeckCmds == {"read", "threecard", "celtic", "meaning", "shuffle"}

NextDeck ==
    \E t \in OneAtATime :
        \/ \E cmd \in DeckCmds : Invoke(t, 1, cmd)
        \/ DeferFail(t)
        \/ ReadBody(t)
        \/ ThreecardBody(t)
        \/ CelticBody(t)
        \/ MeaningBody(t)
        \/ ShuffleBody(t)
        \/ Done(t)

SpecDeck == InitDeck /\ [][NextDeck]_vars

SpreadsInFlight ==
    {t \in Tasks : tasks[t].pc = "send"
                   /\ tasks[t].cmd \in {"read", "threecard", "celtic"}}

\* C11: a spread that asks draw_unique_cards for more cards than the deck holds
\* is rejected with a bounds error and shows no card; the number is never
\* clamped to the size of the deck.
C11_TooManyIsRejected ==
    \A t \in SpreadsInFlight :
        tasks[t].arg > Len(tarot_cards) =>
            /\ tasks[t].resp.kind = "bounds_error"
            /\ tasks[t].resp.cards = <<>>

\* C12: a spread that asks for n cards of a deck holding at least n shows
\* exactly n cards of the deck, no card twice, each Upright or Reversed,
\* whatever the order of the deck and the outcome of the draw.
C12_DrawsDistinctCards ==
    \A t \in SpreadsInFlight :
        tasks[t].arg <= Len(tarot_cards) =>
            LET cards == tasks[t].resp.cards IN
            /\ Len(cards) = tasks[t].arg
            /\ \A i, j \in 1..Len(cards) : i # j => cards[i][1] # cards[j][1]
            /\ \A i \in 1..Len(cards) :
                  /\ cards[i][2] \in Orientations
                  /\ \E k \in DOMAIN tarot_cards : tarot_cards[k] = cards[i][1]

\* three cards drawn from a shuffled deck of more than three, one reversed
C12_Witness ==
    \E t \in SpreadsInFlight :
        /\ tasks[t].arg < Len(tarot_cards)
        /\ tarot_cards # [i \in 1..Len(tarot_cards) |-> i]
        /\ Len(tasks[t].resp.cards) = 3
        /\ \E i \in 1..3 : tasks[t].resp.cards[i][2] = "Reversed"

\* ---------------------------------------------- the readings and their log
ReadingCmds ==
    {"cardoftheday", "read", "threecard", "celtic", "meaning", "clarify", "reveal"}

\* the body of a reading command runs and ends in the delivery of a reading
ReadingStep(t) ==
    \E cmd \in ReadingCmds : BodyStep(t, cmd) /\ tasks'[t].resp.kind = cmd

\* the row a delivered reading is logged as
ReadingRow(task) == [RowOf(task) EXCEPT !.cards = task.resp.cards]

\* C13: when the logging of a reading fails, the failure is caught: the table
\* is left as it was and the command still goes on to deliver its reading, the
\* one its state determines (the stored daily card, the first match of the
\* query, the drawn spread), in the user's tone.
C13_LogFailureIsCaught ==
    [][\A t \in Tasks : ReadingStep(t) /\ ~tasks'[t].log_ok =>
          LET task == tasks'[t] IN
          /\ tarot_reading_history' = tarot_reading_history
          /\ task.pc = "send"
          /\ task.resp.tone = get_effective_tone(task.user)
          /\ task.cmd = "cardoftheday" => ShowsStored(t)'
          /\ task.cmd = "meaning" =>
                task.resp.card = chosen_card(card_matches(Queries[task.arg]))
          /\ task.cmd \in {"read", "threecard", "celtic"} =>
                /\ task.resp.cards \in Draws(task.arg)
                /\ task.resp.cards # <<>>
          /\ task.cmd = "clarify" =>
                <<task.resp.card, task.resp.orientation>> \in draw_card]_vars

\* an opted-in user's /read is delivering its spread although its logging
\* failed, and no row was stored
C13_Witness ==
    \E t \in Tasks :
        /\ tasks[t].pc = "send" /\ tasks[t].cmd = "read"
        /\ OptedIn(tasks[t].user)
        /\ ~tasks[t].log_ok
        /\ tasks[t].resp.cards # <<>>
        /\ tarot_reading_history = <<>>

\* C14: /settings merges: an option that is given gets the given value, an
\* option that is not given keeps the value it had (false for history, true
\* for images when the user had no row), and no other user's row changes.
C14_SettingsMerge ==
    [][\A t \in Tasks : BodyStep(t, "settings") =>
          LET u == tasks[t].user
              given == SettingsArgs[tasks'[t].arg]
              before == IF u \in DOMAIN tarot_user_settings
                        THEN tarot_user_settings[u]
                        ELSE [history_opt_in |-> FALSE, images_enabled |-> TRUE]
              after == get_user_settings(u)'
          IN
          /\ u \in DOMAIN tarot_user_settings'
          /\ after.history_opt_in =
                (IF given[1] = "none" THEN before.history_opt_in ELSE given[1] = "on")
          /\ after.images_enabled =
                (IF given[2] = "none" THEN before.images_enabled ELSE given[2] = "on")
          /\ \A v \in Users \ {u} :
                get_user_settings(v)' = get_user_settings(v)]_vars

\* a /settings that gave only history=on has kept the user's images=off
C14_Witness ==
    \E t \in Tasks :
        /\ tasks[t].pc = "send" /\ tasks[t].cmd = "settings"
        /\ SettingsArgs[tasks[t].arg] = <<"on", "none">>
        /\ get_user_settings(tasks[t].user) =
              [history_opt_in |-> TRUE, images_enabled |-> FALSE]

\* a deployment in which user 1 is opted in to history, with or without images
InitOptedIn ==
    \E images \in BOOLEAN :
        Loaded([i \in 1..NCards |-> i],
               Put(<<>>, 1, [history_opt_in |-> TRUE, images_enabled |-> images]),
               {}, <<>>)

LoggedCmds == ReadingCmds \cup {"mystery", "history"}

NextLogged ==
    \E t \in OneAtATime :
        \/ \E cmd \in LoggedCmds : Invoke(t, 1, cmd)
        \/ DeferFail(t)
        \/ HistoryBody(t)
        \/ CardOfTheDayBody(t)
        \/ ReadBody(t)
        \/ ThreecardBody(t)
        \/ CelticBody(t)
        \/ MeaningBody(t)
        \/ ClarifyBody(t)
        \/ MysteryBody(t)
        \/ RevealBody(t)
        \/ RevealDone(t)
        \/ Done(t)

SpecLogged == InitOptedIn /\ [][NextLogged]_vars

\* C15 as claimed: for an opted-in user every reading command that delivers a
\* reading appends exactly one row describing it (command, tone, cards), and
\* the history query with limit 1 then returns exactly that row.
C15_EveryReadingIsLogged ==
    [][\A t \in Tasks : ReadingStep(t) /\ OptedIn(tasks[t].user) =>
          /\ tarot_reading_history' =
                Append(tarot_reading_history, ReadingRow(tasks'[t]))
          /\ fetch_history(tasks[t].user, 1)' = <<ReadingRow(tasks'[t])>>]_vars

\* C15 as amended: for an opted-in user every reading command that delivers a
\* reading and whose logging does not fail appends exactly one row describing
\* it, and the history query with limit 1 (and /history limit:1) then returns
\* exactly that row; when the logging fails nothing is appended.
C15_EveryLoggedReadingIsReturned ==
    [][\A t \in Tasks : ReadingStep(t) /\ OptedIn(tasks[t].user) =>
          IF tasks'[t].log_ok
          THEN /\ tarot_reading_history' =
                     Append(tarot_reading_history, ReadingRow(tasks'[t]))
               /\ fetch_history(tasks[t].user, 1)' = <<ReadingRow(tasks'[t])>>
               /\ history_reply(tasks[t].user, 1)'.rows = <<ReadingRow(tasks'[t])>>
          ELSE tarot_reading_history' = tarot_reading_history]_vars

\* a /reveal has been logged on top of an older, different row
C15_Witness ==
    \E t \in RevealsInFlight :
        /\ tasks[t].log_ok
        /\ Len(tarot_reading_history) = 2
        /\ tarot_reading_history[2] = ReadingRow(tasks[t])
        /\ tarot_reading_history[1] # tarot_reading_history[2]

\* -------------------------------------------------- a long stored history
\* n clarifier rows logged before, the users taking turns, the cards and the
\* tones cycling
StoredRows(n) ==
    [i \in 1..n |->
        LET k == (i - 1) \div NUsers
        IN  HistoryRow(((i - 1) % NUsers) + 1, "clarify",
                       <<"quick", "full", "shadow">>[(k % 3) + 1],
                       (k % NCards) + 1, "Upright")]

\* a deployment whose users have no stored rows, or one more each than
\* /history ever shows; any of them may be opted in
InitArchive ==
    \E opted \in SUBSET Users, each \in {0, HISTORY_MAX_LIMIT + 1} :
        Loaded([i \in 1..NCards |-> i],
               [u \in opted |-> [history_opt_in |-> TRUE, images_enabled |-> TRUE]],
               {}, StoredRows(each * NUsers))

SpecArchive == InitArchive /\ [][NextHistory]_vars

\* C16: /history of an opted-in user with limit L (none: 10) returns the
\* min(clamp(L, 1, 20), stored) newest rows of that user, newest first, never
\* more than 20 and never a row of another user.
C16_NewestFirstAtMostTwenty ==
    [][\A t \in Tasks : BodyStep(t, "history") /\ OptedIn(tasks[t].user) =>
          LET u == tasks[t].user
              L == tasks'[t].arg
              clamped == IF L = -1 THEN 10 ELSE IF L < 1 THEN 1
                         ELSE IF L > 20 THEN 20 ELSE L
              stored == RowsOf(u)
              n == IF clamped < Len(stored) THEN clamped ELSE Len(stored)
              rows == tasks'[t].resp.rows
          IN
          /\ Len(rows) <= 20
          /\ rows = [i \in 1..n |-> stored[Len(stored) + 1 - i]]
          /\ \A i \in 1..Len(rows) : rows[i].user_id = u]_vars

\* /history limit:25 is returning 20 rows of a user who has more stored, while
\* another user has rows too
C16_Witness ==
    \E t \in Tasks :
        /\ tasks[t].pc = "send" /\ tasks[t].cmd = "history"
        /\ tasks[t].arg > HISTORY_MAX_LIMIT
        /\ Len(tasks[t].resp.rows) = HISTORY_MAX_LIMIT
        /\ Len(RowsOf(tasks[t].user)) > HISTORY_MAX_LIMIT
        /\ \E v \in Users \ {tasks[t].user} : RowsOf(v) # <<>>

\* ------------------------------------------- what may touch stored history
\* a deployment in which another user may have a stored row
InitAppend ==
    \E rows \in {<<>>, <<HistoryRow(2, "clarify", DEFAULT_TONE, 1, "Upright")>>} :
        Loaded([i \in 1..NCards |-> i], <<>>, {}, rows)

AppendCmds == {"settings", "tone", "shuffle", "forgetme", "read", "clarify"}

NextAppend ==
    \E t \in OneAtATime :
        \/ \E cmd \in AppendCmds : Invoke(t, 1, cmd)
        \/ DeferFail(t)
        \/ SettingsBody(t)
        \/ ToneBody(t)
        \/ ShuffleBody(t)
        \/ ForgetBody(t)
        \/ ReadBody(t)
        \/ ClarifyBody(t)
        \/ Done(t)

SpecAppend == InitAppend /\ [][NextAppend]_vars

\* C17: the history table is append-only: a step leaves the stored rows as
\* they are, or a reading command adds one row after them, or it is the
\* /forgetme of a user and removes exactly that user's rows; /shuffle,
\* /settings (opting out included) and /tone change no row.
C17_HistoryAppendOnly ==
    [][\/ tarot_reading_history' = tarot_reading_history
       \/ /\ Len(tarot_reading_history') = Len(tarot_reading_history) + 1
          /\ SubSeq(tarot_reading_history', 1, Len(tarot_reading_history)) =
                tarot_reading_history
          /\ \E t \in Tasks : ReadingStep(t)
       \/ \E t \in Tasks :
            /\ BodyStep(t, "forgetme")
            /\ tarot_reading_history' =
                  SelectSeq(tarot_reading_history,
                            LAMBDA r : r.user_id # tasks[t].user)]_vars

\* after /shuffle, /tone or an opting-out /settings the user's two rows are
\* still stored
C17_Witness ==
    \E t \in Tasks :
        /\ tasks[t].pc = "send"
        /\ \/ tasks[t].cmd \in {"shuffle", "tone"}
           \/ tasks[t].cmd = "settings" /\ ~OptedIn(tasks[t].user)
        /\ Len(RowsOf(tasks[t].user)) = 2

\* C18: a /mystery overwrites the unrevealed entry of an earlier /mystery:
\* the reveal that follows emits the card and orientation of the second, the
\* overwritten entry is emitted by no reveal, and a further reveal reports
\* that nothing is pending.
C18_OverwrittenMysteryIsGone ==
    /\ \A t \in RevealsInFlight :
        /\ tasks[t].prev.op = "mystery" /\ tasks[t].prev.over # 0 =>
              /\ tasks[t].resp.kind = "reveal"
              /\ tasks[t].resp.card = tasks[t].prev.card
              /\ tasks[t].resp.orientation =
                    (IF tasks[t].prev.is_reversed THEN "Reversed" ELSE "Upright")
        /\ tasks[t].prev.op = "reveal" /\ tasks[t].prev.over # 0 =>
              tasks[t].resp.kind = "no_mystery"
    /\ \A u \in Users :
          last_op[u].over # 0 => reveal_emits[last_op[u].over] = 0

\* C19: the deck is loaded once and no command changes its contents or its
\* order, so what a lookup finds for a query (the matches, and the first of
\* them, which /meaning shows) is the same before and after every step.
C19_DeckNeverChanges ==
    [][/\ tarot_cards' = tarot_cards
       /\ \A q \in DOMAIN Queries :
             card_matches(Queries[q])' = card_matches(Queries[q])]_vars

\* C20: a /meaning whose query matches more than one card of the deck tells
\* the user to be more specific (or lists the candidates) and does not render
\* one of the matching cards as if it were the only match.
C20_AmbiguousIsNotGuessed ==
    \A t \in Tasks :
        /\ tasks[t].pc = "send" /\ tasks[t].cmd = "meaning"
        /\ Len(card_matches(Queries[tasks[t].arg])) > 1
        => /\ tasks[t].resp.kind # "meaning"
           /\ tasks[t].resp.card = 0

\* the cards of the deck whose normalized name equals the normalized query
ExactMatches(query) ==
    {c \in {tarot_cards[i] : i \in DOMAIN tarot_cards} :
        normalize_card_name(CardTitle(c)) = normalize_card_name(query)}

\* C21: a /meaning whose normalized query equals the normalized name of a card
\* shows that card, also when cards whose names contain the query come before
\* it in the current order of the deck.
C21_ExactMatchShown ==
    \A t \in Tasks :
        /\ tasks[t].pc = "send" /\ tasks[t].cmd = "meaning"
        => \A c \in ExactMatches(Queries[tasks[t].arg]) :
              /\ tasks[t].resp.kind = "meaning"
              /\ tasks[t].resp.card = c

\* C22: after /shuffle the tone read of its user is the default "quick",
\* whatever tone was stored before, and the tone read of a user without a
\* stored tone stays "quick" through every step that is not a /tone of that
\* user.
C22_ResetGivesDefaultTone ==
    [][/\ \A t \in Tasks : BodyStep(t, "shuffle") =>
            get_user_tone(tasks[t].user)' = "quick"
       /\ \A u \in Users :
            /\ u \notin DOMAIN tarot_user_prefs
            /\ ~\E t \in Tasks : BodyStep(t, "tone") /\ tasks[t].user = u
            => get_user_tone(u)' = "quick"]_vars

\* a /shuffle has just removed a stored tone and the tone read gives "quick"
C22_Witness ==
    \E t \in Tasks :
        /\ tasks[t].pc = "send" /\ tasks[t].cmd = "shuffle"
        /\ tasks[t].erased = {"tone"}
        /\ get_user_tone(tasks[t].user) = "quick"

\* C23: a failing tone read does not fail the reading command: a /clarify
\* always delivers its reading (with the default tone when the read failed),
\* never the error notice.
C23_ToneReadFailureFallsBack ==
    \A t \in Tasks :
        tasks[t].pc = "send" /\ tasks[t].cmd = "clarify" =>
            /\ tasks[t].resp.kind = "clarify"
            /\ tasks[t].resp.tone \in DOMAIN TONE_SPECS

\* ------------------------------------------------------ rendering a card
\* A text is a sequence of pieces, each a run of n characters from one source
\* (a field of the card, a label, a separator); its length is the sum of the
\* runs, and a cut may fall inside a run.
Piece(of, n) == [of |-> of, len |-> n]

Str(of, n) == IF n = 0 THEN <<>> ELSE <<Piece(of, n)>>

RECURSIVE len(_)
len(text) == IF text = <<>> THEN 0 ELSE Head(text).len + len(Tail(text))

\* the runs str.strip() removes at either end
IsSpace(piece) == piece.of \in {" ", "\n", "\n\n"}

RECURSIVE lstrip(_)
lstrip(text) ==
    IF text # <<>> /\ IsSpace(Head(text)) THEN lstrip(Tail(text)) ELSE text

RECURSIVE rstrip(_)
rstrip(text) ==
    IF text # <<>> /\ IsSpace(text[Len(text)])
    THEN rstrip(SubSeq(text, 1, Len(text) - 1))
    ELSE text

strip(text) == rstrip(lstrip(text))

\* text[:n]
RECURSIVE Take(_, _)
Take(text, n) ==
    IF n <= 0 \/ text = <<>> THEN <<>>
    ELSE IF Head(text).len <= n
         THEN <<Head(text)>> \o Take(Tail(text), n - Head(text).len)
         ELSE <<Piece(Head(text).of, n)>>

\* sep.join(blocks)
RECURSIVE Join(_, _)
Join(blocks, sep) ==
    IF blocks = <<>> THEN <<>>
    ELSE IF Len(blocks) = 1 THEN blocks[1]
    ELSE blocks[1] \o sep \o Join(Tail(blocks), sep)

\* the one-character marks U+2026 and U+2014
ELLIPSIS == "<ellipsis>"

EM_DASH == "<em dash>"

CLIP_MAX_LEN == 3800

CLIP_FIELD_LIMIT == 1024

SPREAD_FIELD_LIMIT == 1000

\* a plausible slip: the marker is added after max_len characters
clip_marker_after(text, max_len) ==
    LET t == strip(text)
    IN  IF len(t) <= max_len THEN t ELSE Take(t, max_len) \o <<Piece(ELLIPSIS, 1)>>

_clip(text, max_len) ==
    LET t == strip(text)
    IN  IF len(t) <= max_len THEN t ELSE Take(t, max_len - 1) \o <<Piece(ELLIPSIS, 1)>>

clip_field(text, limit) ==
    LET t == strip(text)
    IN  IF len(t) <= limit THEN t ELSE Take(t, limit - 1) \o <<Piece(ELLIPSIS, 1)>>

\* "meaning if len(meaning) < 1000 else meaning[:997] + '...'"
spread_field(meaning) ==
    IF len(meaning) < SPREAD_FIELD_LIMIT THEN meaning
    ELSE Take(meaning, SPREAD_FIELD_LIMIT - 3) \o <<Piece("...", 3)>>

\* d.get(k, default)
Get(d, k, default) == IF k \in DOMAIN d THEN d[k] ELSE default

\* a or b, on strings
Or(a, b) == IF a # <<>> THEN a ELSE b

\* f"{label} {value}": the label of n characters, a space, the value
Labelled(label, n, value) == <<Piece(label, n), Piece(" ", 1)>> \o value

\* "if value: blocks.append(f'{label} {value}')"
LabelledBlock(label, n, value) ==
    IF value # <<>> THEN <<Labelled(label, n, value)>> ELSE <<>>

do_dont(dg) ==
    LET do == Get(dg, "do", <<>>)
        dont == Get(dg, "dont", <<>>)
    IN  IF do # <<>> /\ dont # <<>>
        THEN Labelled("**Do:**", 7, do) \o <<Piece("\n", 1)>>
                \o Labelled("**Don't:**", 10, dont)
        ELSE Or(do, dont)

NonBlank(q) == strip(q) # <<>>

questions(dg) ==
    LET qs == SelectSeq(Get(dg, "questions", <<>>), NonBlank)
        first == SubSeq(qs, 1, Min(3, Len(qs)))
    IN  IF qs # <<>>
        THEN Labelled("**Ask:**", 8, Join(first, <<Piece(" | ", 3)>>))
        ELSE <<>>

\* TONE_SPECS.get(tone, TONE_SPECS[DEFAULT_TONE])
\* a plausible slip: every tone is rendered with the longest list
tone_spec_full(tone) == TONE_SPECS["full"]

tone_spec(tone) ==
    IF tone \in DOMAIN TONE_SPECS THEN TONE_SPECS[tone] ELSE TONE_SPECS[DEFAULT_TONE]

\* one round of "for token in spec": the blocks the token appends (none or one)
Block(token, card, meaning, dg, lenses) ==
    CASE token = "meaning" -> <<meaning>>
      [] token = "mantra" -> LabelledBlock("**Mantra:**", 11, Get(dg, "mantra", <<>>))
      [] token = "quick" ->
            IF Get(dg, "quick", <<>>) # <<>> THEN <<dg["quick"]>> ELSE <<>>
      [] token = "do" -> LabelledBlock("**Do:**", 7, Get(dg, "do", <<>>))
      [] token = "do_dont" -> IF do_dont(dg) # <<>> THEN <<do_dont(dg)>> ELSE <<>>
      [] token = "watch_for" ->
            LabelledBlock("**Watch for:**", 14, Get(dg, "watch_for", <<>>))
      [] token = "shadow" -> LabelledBlock("**Shadow:**", 11, Get(dg, "shadow", <<>>))
      [] token = "questions" -> IF questions(dg) # <<>> THEN <<questions(dg)>> ELSE <<>>
      [] token = "next_24h" ->
            LabelledBlock("**Next 24h:**", 13, Get(dg, "next_24h", <<>>))
      [] token = "relationships" ->
            LabelledBlock("**Love/People:**", 16,
                          Or(Get(lenses, "relationships", <<>>),
                             Get(dg, "relationships", <<>>)))
      [] token = "work" ->
            LabelledBlock("**Work:**", 9,
                          Or(Get(lenses, "work", <<>>), Get(dg, "work", <<>>)))
      [] token = "money" ->
            LabelledBlock("**Money:**", 10,
                          Or(Get(lenses, "money", <<>>), Get(dg, "money", <<>>)))
      [] token = "tell" -> LabelledBlock("**The truth:**", 14, Get(dg, "tell", <<>>))
      [] token = "prescription" ->
            LabelledBlock("**Do this:**", 12, Get(dg, "prescription", <<>>))
      [] token = "pitfall" ->
            LabelledBlock("**Pitfall:**", 12, Get(dg, "pitfall", <<>>))
      [] token = "green_red" ->
            LET gf == Get(dg, "green_flag", <<>>)
                rf == Get(dg, "red_flag", <<>>)
                line == LabelledBlock("**Green flag:**", 15, gf)
                            \o LabelledBlock("**Red flag:**", 13, rf)
            IN  IF gf # <<>> \/ rf # <<>>
                THEN <<Join(line, <<Piece("\n", 1)>>)>>
                ELSE <<>>
      [] token = "reader_voice" ->
            IF Get(dg, "reader_voice", <<>>) # <<>>
            THEN <<<<Piece("*", 1)>> \o dg["reader_voice"] \o <<Piece("*", 1)>>>>
            ELSE <<>>
      [] token = "poetic_hint" ->
            IF Get(dg, "poetic_hint", <<>>) # <<>>
            THEN <<<<Piece("*", 1)>> \o dg["poetic_hint"] \o <<Piece("*", 1)>>>>
            ELSE <<>>
      [] token = "call_to_action" ->
            LabelledBlock("**Action:**", 11, Get(card, "call_to_action", <<>>))
      [] OTHER -> <<>>

\* orientation.lower() == "reversed"
is_rev(orientation) == orientation \in {"Reversed", "reversed", "REVERSED"}

RECURSIVE Blocks(_, _, _, _, _)
Blocks(spec, card, meaning, dg, lenses) ==
    IF spec = <<>> THEN <<>>
    ELSE Block(Head(spec), card, meaning, dg, lenses)
            \o Blocks(Tail(spec), card, meaning, dg, lenses)

\* the text render_card_text hands to _clip: "\n\n".join(blocks)
joined_blocks(card, orientation, tone) ==
    LET spec == tone_spec(normalize_tone(tone))
        meaning == Get(card, IF is_rev(orientation) THEN "reversed" ELSE "upright",
                       <<Piece(EM_DASH, 1)>>)
        dg == Get(card, "direct_guidance", <<>>)
        lenses == Get(dg, "lenses", <<>>)
    IN  Join(Blocks(spec, card, meaning, dg, lenses), <<Piece("\n\n", 2)>>)

render_card_text(card, orientation, tone) ==
    _clip(joined_blocks(card, orientation, tone), CLIP_MAX_LEN)

\* ------------------------------------------------- the renderer's inputs
\* (the deck file is not part of the repository: the cards below are a card
\* with every field, a card with none, and each of the two with one field
\* changed)
Short == 7

TopKeys == {"upright", "reversed", "call_to_action"}

DGKeys ==
    {"mantra", "quick", "do", "dont", "watch_for", "shadow", "next_24h",
     "relationships", "work", "money", "tell", "prescription", "pitfall",
     "green_flag", "red_flag", "reader_voice", "poetic_hint"}

LensKeys == {"relationships", "work", "money"}

\* where a card is changed: a key of the card, of its direct_guidance, of the
\* lenses of its direct_guidance
Places ==
    ({"card"} \X (TopKeys \cup {"direct_guidance"}))
        \cup ({"dg"} \X (DGKeys \cup {"questions", "lenses"}))
        \cup ({"lenses"} \X LensKeys)

NameOf(place) == place[1] \o "." \o place[2]

Kinds ==
    {"absent", "empty", "blank", "short", "padded", "below 1000", "1000",
     "1024", "over 1024", "3800", "over 3800"}

FieldValue(of, kind) ==
    CASE kind = "empty" -> <<>>
      [] kind = "blank" -> <<Piece(" ", 1)>>
      [] kind = "short" -> Str(of, Short)
      [] kind = "padded" -> Str(of, Short) \o <<Piece(" ", 1)>>
      [] kind = "below 1000" -> Str(of, SPREAD_FIELD_LIMIT - 1)
      [] kind = "1000" -> Str(of, SPREAD_FIELD_LIMIT)
      [] kind = "1024" -> Str(of, CLIP_FIELD_LIMIT)
      [] kind = "over 1024" -> Str(of, CLIP_FIELD_LIMIT + 1)
      [] kind = "3800" -> Str(of, CLIP_MAX_LEN)
      [] kind = "over 3800" -> Str(of, CLIP_MAX_LEN + 1)

Question(i) == Str("dg.questions." \o ToString(i), Short)

QuestionList(kind) ==
    CASE kind = "empty" -> <<>>
      [] kind = "blank" -> <<<<Piece(" ", 1)>>>>
      [] kind = "short" -> <<Question(1)>>
      [] kind = "padded" -> <<Question(1), <<Piece(" ", 1)>>, Question(2)>>
      [] kind = "over 3800" -> <<Str("dg.questions.1", CLIP_MAX_LEN + 1)>>
      [] OTHER -> <<Question(1), Question(2), Question(3), Question(4)>>

Rich ==
    [k \in TopKeys \cup {"direct_guidance"} |->
        IF k = "direct_guidance"
        THEN [g \in DGKeys \cup {"questions", "lenses"} |->
                IF g = "questions" THEN QuestionList("short")
                ELSE IF g = "lenses"
                     THEN [l \in LensKeys |-> Str("lenses." \o l, Short)]
                     ELSE Str("dg." \o g, Short)]
        ELSE Str("card." \o k, Short)]

\* d without k, or d with d[k] = the value of that kind
Edit(d, place, kind) ==
    IF kind = "absent" THEN Pop(d, place[2])
    ELSE Put(d, place[2],
             IF place = <<"dg", "questions">> THEN QuestionList(kind)
             ELSE FieldValue(NameOf(place), kind))

SampleCard(base, place, kind) ==
    LET b == IF base = "rich" THEN Rich ELSE <<>>
        dg == Get(b, "direct_guidance", <<>>)
        lenses == Get(dg, "lenses", <<>>)
    IN  CASE place \in {<<"card", "direct_guidance">>, <<"dg", "lenses">>} ->
                IF place[1] = "card" THEN Pop(b, "direct_guidance")
                ELSE Put(b, "direct_guidance", Pop(dg, "lenses"))
          [] place[1] = "card" -> Edit(b, place, kind)
          [] place[1] = "dg" -> Put(b, "direct_guidance", Edit(dg, place, kind))
          [] place[1] = "lenses" ->
                Put(b, "direct_guidance", Put(dg, "lenses", Edit(lenses, place, kind)))

ToneInputs == DOMAIN TONE_SPECS \cup {"", "mystic", None, " Full ", "POETIC"}

\* what the caller does with the rendered text: /clarify shows it as it is,
\* /meaning puts it in a field ("clip_field(..., 1024) or '—'"), /read in a
\* field of the spread
Sites == {"clarify", "meaning", "read"}

Shown(site, text) ==
    CASE site = "meaning" -> Or(clip_field(text, CLIP_FIELD_LIMIT), <<Piece(EM_DASH, 1)>>)
      [] site = "read" -> spread_field(text)
      [] OTHER -> text

\* render_card_text applied once to one card, orientation and tone; the task
\* record keeps what went in and what came out
RenderStep(t) ==
    /\ tasks[t].pc = "idle"
    /\ \E base \in {"rich", "bare"}, place \in Places, kind \in Kinds,
          orientation \in Orientations, tone \in ToneInputs, site \in Sites :
        LET card == SampleCard(base, place, kind) IN
        tasks' = [tasks EXCEPT ![t] =
                    [IdleTask EXCEPT
                        !.pc = "rendered", !.cmd = site,
                        !.arg = [card |-> card, orientation |-> orientation,
                                 tone |-> tone],
                        !.resp = [NoResp EXCEPT
                                    !.kind = "text",
                                    !.text = Shown(site,
                                        render_card_text(card, orientation, tone))]]]
    /\ UNCHANGED <<tarot_cards, session, database, today, now, observers>>

\* set_user_tone applied to one user and tone string
SetToneStep(t) ==
    /\ tasks[t].pc \in {"idle", "stored"}
    /\ \E u \in Users, tone \in ToneInputs :
        /\ tarot_user_prefs' = set_user_tone(u, tone)
        /\ tasks' = [tasks EXCEPT ![t] =
                        [IdleTask EXCEPT !.pc = "stored", !.cmd = "set_user_tone",
                                         !.user = u, !.arg = [tone |-> tone]]]
    /\ UNCHANGED <<tarot_cards, session, tarot_user_settings, tarot_reading_history,
                   tarot_daily_card, today, now, observers>>

NextRender == \E t \in OneAtATime : RenderStep(t) \/ SetToneStep(t)

SpecRender == Init /\ [][NextRender]_vars

Rendered == {t \in Tasks : tasks[t].pc = "rendered"}

\* the tone is no preset name, however it is spelled
Unknown(tone) == lower_strip(tone) \notin DOMAIN TONE_SPECS

\* C24: an unknown tone name (the empty string and a missing tone included)
\* falls back to the default tone: the card is rendered exactly as with the
\* default tone, and set_user_tone stores the default tone.
C24_UnknownToneIsDefault ==
    \A t \in Tasks :
        /\ t \in Rendered /\ Unknown(tasks[t].arg.tone) =>
              tasks[t].resp.text =
                Shown(tasks[t].cmd,
                      render_card_text(tasks[t].arg.card, tasks[t].arg.orientation,
                                       DEFAULT_TONE))
        /\ tasks[t].pc = "stored" /\ Unknown(tasks[t].arg.tone) =>
              /\ tasks[t].user \in DOMAIN tarot_user_prefs
              /\ tarot_user_prefs[tasks[t].user] = DEFAULT_TONE

\* the pieces of a text that come from the named source
Has(text, of) == \E i \in 1..Len(text) : text[i].of = of

C24_Witness ==
    \E t \in Rendered :
        /\ tasks[t].arg.tone = "mystic" /\ tasks[t].cmd = "clarify"
        /\ Has(tasks[t].resp.text, "dg.quick")
        /\ ~Has(tasks[t].resp.text, "dg.mantra")
        /\ "mantra" \in DOMAIN tasks[t].arg.card["direct_guidance"]

\* the block a piece of a rendered text belongs to ("" for the glue between
\* and inside blocks and for the truncation marks)
TokenOf(of) ==
    CASE of \in {"card.upright", "card.reversed", EM_DASH} -> "meaning"
      [] of \in {"**Action:**", "card.call_to_action"} -> "call_to_action"
      [] of \in {"**Mantra:**", "dg.mantra"} -> "mantra"
      [] of = "dg.quick" -> "quick"
      [] of \in {"**Do:**", "**Don't:**", "dg.do", "dg.dont"} -> "do_dont"
      [] of \in {"**Watch for:**", "dg.watch_for"} -> "watch_for"
      [] of \in {"**Shadow:**", "dg.shadow"} -> "shadow"
      [] of \in {"**Ask:**", " | ", "dg.questions.1", "dg.questions.2",
                 "dg.questions.3", "dg.questions.4"} -> "questions"
      [] of \in {"**Next 24h:**", "dg.next_24h"} -> "next_24h"
      [] of \in {"**Love/People:**", "dg.relationships", "lenses.relationships"} ->
            "relationships"
      [] of \in {"**Work:**", "dg.work", "lenses.work"} -> "work"
      [] of \in {"**Money:**", "dg.money", "lenses.money"} -> "money"
      [] of \in {"**The truth:**", "dg.tell"} -> "tell"
      [] of \in {"**Do this:**", "dg.prescription"} -> "prescription"
      [] of \in {"**Pitfall:**", "dg.pitfall"} -> "pitfall"
      [] of \in {"**Green flag:**", "**Red flag:**", "dg.green_flag", "dg.red_flag"} ->
            "green_red"
      [] of = "dg.reader_voice" -> "reader_voice"
      [] of = "dg.poetic_hint" -> "poetic_hint"
      [] OTHER -> ""

\* the texts render_card_text returned, shown as they are
RenderedAsIs == {t \in Rendered : tasks[t].cmd = "clarify"}

\* C25: the rendered text holds only blocks named in the tone's list, in the
\* order of that list and each at most once (two pieces with a paragraph
\* separator between them belong to blocks in strictly rising list position);
\* for tone 'quick' that is the quick message and the call to action only.
C25_OnlyTheTonesBlocksInOrder ==
    \A t \in RenderedAsIs :
        LET text == tasks[t].resp.text
            tone == normalize_tone(tasks[t].arg.tone)
            spec == TONE_SPECS[tone]
            Tok(i) == TokenOf(text[i].of)
            Pos(tok) == CHOOSE p \in 1..Len(spec) : spec[p] = tok
            content == {i \in 1..Len(text) : Tok(i) # ""}
        IN  /\ \A i \in content : \E p \in 1..Len(spec) : spec[p] = Tok(i)
            /\ \A i, j \in content : i < j =>
                  /\ Pos(Tok(i)) <= Pos(Tok(j))
                  /\ (\E k \in i..j : text[k].of = "\n\n") => Pos(Tok(i)) < Pos(Tok(j))
            /\ tone = "quick" =>
                  \A i \in content : Tok(i) \in {"quick", "call_to_action"}

C25_Witness ==
    \E t \in RenderedAsIs :
        /\ tasks[t].arg.tone = "quick"
        /\ tasks[t].resp.text =
              <<Piece("dg.quick", Short), Piece("\n\n", 2), Piece("**Action:**", 11),
                Piece(" ", 1), Piece("card.call_to_action", Short)>>
        /\ {"mantra", "shadow", "tell"} \subseteq DOMAIN tasks[t].arg.card["direct_guidance"]

\* C26: a block whose source is empty or absent leaves nothing in the text,
\* the base meaning included: no placeholder stands for an absent meaning and
\* no paragraph separator follows another.
C26_EmptyBlocksLeaveNothing ==
    \A t \in RenderedAsIs :
        LET text == tasks[t].resp.text
            card == tasks[t].arg.card
            key == IF tasks[t].arg.orientation = "Reversed" THEN "reversed" ELSE "upright"
        IN  /\ key \notin DOMAIN card => ~Has(text, EM_DASH)
            /\ \A i \in 1..Len(text) - 1 :
                  ~(text[i].of = "\n\n" /\ text[i + 1].of = "\n\n")

\* the per-section clips of /meaning and of the spreads keep their limit
SectionClipsHold(t) ==
    /\ tasks[t].cmd = "meaning" => len(tasks[t].resp.text) <= CLIP_FIELD_LIMIT
    /\ tasks[t].cmd = "read" => len(tasks[t].resp.text) <= SPREAD_FIELD_LIMIT

\* C29 as claimed: the rendered text is never longer than 3800; the joined
\* blocks are returned unchanged when they are within 3800, and are otherwise
\* cut to exactly 3800 characters ending with the truncation marker; the
\* clips to 1024 and 1000 keep their limit.
C29_ClippedOrUnchanged ==
    \A t \in Rendered :
        LET text == tasks[t].resp.text
            joined == joined_blocks(tasks[t].arg.card, tasks[t].arg.orientation,
                                    tasks[t].arg.tone)
        IN  /\ SectionClipsHold(t)
            /\ t \in RenderedAsIs =>
                  /\ len(text) <= CLIP_MAX_LEN
                  /\ len(joined) <= CLIP_MAX_LEN => text = joined
                  /\ len(joined) > CLIP_MAX_LEN =>
                        /\ len(text) = CLIP_MAX_LEN
                        /\ text[Len(text)].of = ELLIPSIS

\* C29 as amended: the rendered text is never longer than 3800; the joined
\* blocks are first stripped of the whitespace at their ends, and the stripped
\* text is returned as it is when it is within 3800, and is otherwise cut to
\* exactly 3800 characters ending with the truncation marker; the clips to 1024
\* and 1000 keep their limit.
C29_StrippedThenClipped ==
    \A t \in Rendered :
        LET text == tasks[t].resp.text
            joined == strip(joined_blocks(tasks[t].arg.card, tasks[t].arg.orientation,
                                          tasks[t].arg.tone))
        IN  /\ SectionClipsHold(t)
            /\ t \in RenderedAsIs =>
                  /\ len(text) <= CLIP_MAX_LEN
                  /\ len(joined) <= CLIP_MAX_LEN => text = joined
                  /\ len(joined) > CLIP_MAX_LEN =>
                        /\ len(text) = CLIP_MAX_LEN
                        /\ text[Len(text)].of = ELLIPSIS

C29_Witness ==
    \E t \in RenderedAsIs :
        /\ len(tasks[t].resp.text) = CLIP_MAX_LEN
        /\ Has(tasks[t].resp.text, ELLIPSIS)
        /\ Has(tasks[t].resp.text, "dg.mantra")

\* ------------------------------------------- the embeds of a Celtic Cross
\* (lengths only: a field is its position with the lengths of its name and of
\* its value, an embed is its heading with the fields added to it)
EMBED_BUDGET == 5800

field_length(field) == field.name + field.value

Embed(heading) == [heading |-> heading, fields |-> <<>>]

\* a plausible slip: the field is set, not added
add_field_replacing(embed, field) == [embed EXCEPT !.fields = <<field>>]

add_field(embed, field) == [embed EXCEPT !.fields = Append(@, field)]

\* a plausible slip: the embed is sealed only once it is over the budget
exceeds_after(total_length, field) == total_length > EMBED_BUDGET

\* "if total_length + field_length > 5800"
exceeds(total_length, field) == total_length + field_length(field) > EMBED_BUDGET

\* the loop over the fields from the one at the head of fields on, and the
\* append after it; continued is len(title) + len(description) of a
\* "(Continued)" embed
RECURSIVE paginate(_, _, _, _, _)
paginate(fields, continued, embed, total_length, embeds_to_send) ==
    IF fields = <<>> THEN Append(embeds_to_send, embed)
    ELSE IF exceeds(total_length, Head(fields))
         THEN paginate(Tail(fields), continued,
                       add_field(Embed("continued"), Head(fields)),
                       continued + field_length(Head(fields)),
                       Append(embeds_to_send, embed))
         ELSE paginate(Tail(fields), continued,
                       add_field(embed, Head(fields)),
                       total_length + field_length(Head(fields)),
                       embeds_to_send)

\* first is len(embed.title) + len(embed.description) of the first embed
celtic_embeds(fields, first, continued) ==
    paginate(fields, continued, Embed("first"), first, <<>>)

MaxSections == 6

LongHeading == 100

HeadingLengths == {Short, LongHeading}

\* the lengths of a field's value: short, a clipped reading, half a budget,
\* the most that fits under a long heading, and more than ever fits
ValueLengths ==
    {Short, SPREAD_FIELD_LIMIT, EMBED_BUDGET \div 2,
     EMBED_BUDGET - LongHeading - Short, EMBED_BUDGET}

\* the pagination applied once to a sequence of fields
PaginateStep(t) ==
    /\ tasks[t].pc = "idle"
    /\ \E n \in 0..MaxSections, first \in HeadingLengths, continued \in HeadingLengths :
        \E values \in [1..n -> ValueLengths] :
            LET fields == [i \in 1..n |->
                            [pos |-> i, name |-> Short, value |-> values[i]]]
            IN  tasks' = [tasks EXCEPT ![t] =
                    [IdleTask EXCEPT
                        !.pc = "paginated", !.cmd = "celtic",
                        !.arg = [fields |-> fields, first |-> first,
                                 continued |-> continued],
                        !.resp = [NoResp EXCEPT
                                    !.kind = "embeds",
                                    !.embeds = celtic_embeds(fields, first, continued)]]]
    /\ UNCHANGED <<tarot_cards, session, database, today, now, observers>>

NextPages == \E t \in OneAtATime : PaginateStep(t)

SpecPages == Init /\ [][NextPages]_vars

Paginated == {t \in Tasks : tasks[t].pc = "paginated"}

RECURSIVE FieldsOf(_)
FieldsOf(embeds) ==
    IF embeds = <<>> THEN <<>> ELSE Head(embeds).fields \o FieldsOf(Tail(embeds))

\* C27: the fields of the emitted embeds, read embed after embed, are exactly
\* the input fields: same order, none dropped, none twice, and each one whole
\* in one embed.
C27_FieldsKeptInOrder ==
    \A t \in Paginated : FieldsOf(tasks[t].resp.embeds) = tasks[t].arg.fields

C27_Witness ==
    \E t \in Paginated :
        /\ Len(tasks[t].resp.embeds) = 3
        /\ Len(tasks[t].arg.fields) = MaxSections
        /\ \A i \in 1..3 : Len(tasks[t].resp.embeds[i].fields) = 2

RECURSIVE Sum(_)
Sum(fields) == IF fields = <<>> THEN 0 ELSE field_length(Head(fields)) + Sum(Tail(fields))

\* len(title) + len(description) of the k-th embed
HeadingOf(t, k) == IF k = 1 THEN tasks[t].arg.first ELSE tasks[t].arg.continued

\* heading plus fields
Accounted(t, k) == HeadingOf(t, k) + Sum(tasks[t].resp.embeds[k].fields)

\* every field fits the budget together with either heading
EveryFieldFits(t) ==
    \A i \in 1..Len(tasks[t].arg.fields) :
        /\ tasks[t].arg.first + field_length(tasks[t].arg.fields[i]) <= EMBED_BUDGET
        /\ tasks[t].arg.continued + field_length(tasks[t].arg.fields[i]) <= EMBED_BUDGET

\* an embed is sealed only when the next field would take it over the budget
SealedWhenOver(t) ==
    \A k \in 1..Len(tasks[t].resp.embeds) - 1 :
        /\ tasks[t].resp.embeds[k + 1].fields # <<>>
        /\ Accounted(t, k) + field_length(tasks[t].resp.embeds[k + 1].fields[1])
              > EMBED_BUDGET

WithinBudget(t) ==
    \A k \in 1..Len(tasks[t].resp.embeds) : Accounted(t, k) <= EMBED_BUDGET

NoEmptyEmbed(t) ==
    \A k \in 1..Len(tasks[t].resp.embeds) : tasks[t].resp.embeds[k].fields # <<>>

\* C28 as claimed: an embed is sealed exactly when the next field would take
\* it over 5800; given that every field fits the budget together with the
\* heading, no emitted embed is over the budget and none is without fields.
C28_SealedExactlyWhenOver ==
    \A t \in Paginated :
        /\ SealedWhenOver(t)
        /\ EveryFieldFits(t) => WithinBudget(t) /\ NoEmptyEmbed(t)

\* C28 as amended: an embed is sealed exactly when the next field would take
\* it over 5800; given at least one field and that every field fits the budget
\* together with the heading, no emitted embed is over the budget and none is
\* without fields.
C28_SealedExactlyWhenOverSome ==
    \A t \in Paginated :
        /\ SealedWhenOver(t)
        /\ EveryFieldFits(t) => WithinBudget(t)
        /\ EveryFieldFits(t) /\ tasks[t].arg.fields # <<>> => NoEmptyEmbed(t)

C28_Witness ==
    \E t \in Paginated :
        /\ EveryFieldFits(t)
        /\ Len(tasks[t].resp.embeds) = 2
        /\ Accounted(t, 1) = EMBED_BUDGET
        /\ Len(tasks[t].resp.embeds[2].fields) >= 2

\* ------------------------------------------------- two users side by side
\* a deployment that holds a settings row, a history row and a daily row of
\* every user, and a deck in which one title contains another; each user runs
\* one command at a time, the two users' handlers interleave
InitShared ==
    Loaded([i \in 1..NCards + 1 |-> i],
           [u \in Users |-> [history_opt_in |-> FALSE, images_enabled |-> TRUE]],
           StaleRows, StoredRows(NUsers))

SharedCmds == {"shuffle", "forgetme", "mystery", "meaning"}

NextShared ==
    \E t \in Tasks :
        \/ \E cmd \in SharedCmds : Invoke(t, t, cmd)
        \/ DeferFail(t)
        \/ ShuffleBody(t)
        \/ ForgetBody(t)
        \/ MysteryBody(t)
        \/ MeaningBody(t)
        \/ Done(t)

SpecShared == InitShared /\ [][NextShared]_vars

\* the entry of a dict or table under a key, if any
EntryOf(d, k) == IF k \in DOMAIN d THEN <<d[k]>> ELSE <<>>

DailyRowsOf(user_id) == {r \in tarot_daily_card : r.user_id = user_id}

\* what the user holds: intention, pending mystery, tone, settings, history
\* rows, daily-card records
HeldBy(user_id) ==
    <<EntryOf(user_intentions, user_id), EntryOf(MYSTERY_STATE, user_id),
      EntryOf(tarot_user_prefs, user_id), EntryOf(tarot_user_settings, user_id),
      RowsOf(user_id), DailyRowsOf(user_id)>>

\* the card a /meaning with the q-th query would show now (0: none)
LookedUp(q) ==
    IF card_matches(Queries[q]) = <<>> THEN 0
    ELSE chosen_card(card_matches(Queries[q]))

\* C30: the step of a handler of user u leaves everything held by any other
\* user v as it was, and leaves what v's later commands return as it was: v's
\* tone, v's history and the card each lookup of v would show.
C30_UsersNeverInteract ==
    [][\A t \in Tasks, cmd \in SharedCmds : BodyStep(t, cmd) =>
          \A v \in Users \ {tasks[t].user} :
              /\ HeldBy(v)' = HeldBy(v)
              /\ get_user_tone(v)' = get_user_tone(v)
              /\ fetch_history(v, HISTORY_MAX_LIMIT)' = fetch_history(v, HISTORY_MAX_LIMIT)
              /\ \A q \in DOMAIN Queries : LookedUp(q)' = LookedUp(q)]_vars

\* --------------------------------------------------------- the intention
IntentCmds == {"intent", "read", "threecard", "shuffle", "forgetme"}

NextIntent ==
    \E t \in Tasks :
        \/ \E u \in Users, cmd \in IntentCmds : Invoke(t, u, cmd)
        \/ DeferFail(t)
        \/ IntentBody(t)
        \/ ReadBody(t)
        \/ ThreecardBody(t)
        \/ ShuffleBody(t)
        \/ ForgetBody(t)
        \/ Done(t)

SpecIntent == Init /\ [][NextIntent]_vars

\* the body of a handler of the user runs in this step
StepOf(t, user_id) ==
    /\ tasks[t].user = user_id
    /\ tasks[t].pc = "defer"
    /\ tasks'[t].pc = "send"

\* the step writes the intention: /read, or /intent with a text
WritesIntention(t) ==
    \/ tasks[t].cmd = "read"
    \/ tasks[t].cmd = "intent" /\ tasks'[t].resp.kind = "intention_set"

\* C31: the intention is last-write-wins: no user has one at process start;
\* a /intent with a text and a /read leave exactly the text they were given, a
\* /shuffle or /forgetme of the user leaves none, and every other step (of
\* this or of another user) leaves it as it was; a /intent without a text and
\* a /threecard show the intention as it is and do not change it.
C31_IntentionLastWriteWins ==
    /\ user_intentions = <<>>
    /\ [][\A u \in Users :
            /\ \A t \in Tasks : StepOf(t, u) /\ WritesIntention(t) =>
                  /\ tasks'[t].resp.intention # 0
                  /\ get_intention(u)' = tasks'[t].resp.intention
            /\ \A t \in Tasks : StepOf(t, u) /\ tasks[t].cmd \in {"shuffle", "forgetme"} =>
                  get_intention(u)' = 0
            /\ (~\E t \in Tasks :
                    /\ StepOf(t, u)
                    /\ WritesIntention(t) \/ tasks[t].cmd \in {"shuffle", "forgetme"})
                  => get_intention(u)' = get_intention(u)
            /\ \A t \in Tasks : StepOf(t, u) /\ ~WritesIntention(t)
                                /\ tasks[t].cmd \in {"intent", "threecard"} =>
                  /\ tasks'[t].resp.intention = get_intention(u)
                  /\ tasks[t].cmd = "intent" =>
                        tasks'[t].resp.kind =
                            IF get_intention(u) = 0 THEN "no_intention"
                            ELSE "intention_is"]_vars

C31_Witness ==
    \E t, r \in Tasks :
        /\ tasks[t].user = tasks[r].user
        /\ tasks[r].pc = "send" /\ tasks[r].cmd = "read"
        /\ tasks[t].pc = "send" /\ tasks[t].cmd = "threecard"
        /\ tasks[t].resp.intention \in Intentions
        /\ tasks[r].resp.intention \in ReadIntentions
        /\ get_intention(tasks[t].user) = tasks[t].resp.intention

\* the reveal of task t finishes in this step
RevealFinishes(t) ==
    /\ tasks[t].pc = "send"
    /\ tasks[t].cmd = "reveal"
    /\ tasks'[t].pc = "idle"

\* C32: a reveal clears only the entry it emitted: when a /mystery of the
\* same user has stored a new entry since the reveal read the old one, the
\* new entry is still pending after the reveal has finished.
C32_RevealKeepsNewerEntry ==
    [][\A t \in Tasks :
          LET u == tasks[t].user IN
          /\ RevealFinishes(t)
          /\ u \in DOMAIN MYSTERY_STATE
          /\ MYSTERY_STATE[u] \notin tasks[t].state
          => /\ u \in DOMAIN MYSTERY_STATE'
             /\ MYSTERY_STATE'[u] = MYSTERY_STATE[u]]_vars

\* ------------------------------------------- /forgetme that fails midway
\* the statements of the one transaction of /forgetme and its commit, in order
ForgetSteps == <<"prefs", "settings", "history", "commit">>

\* a plausible slip: the connection autocommits, so the DELETEs before the
\* failing step stay applied
forget_tables_autocommit(uid, fails_at) ==
    <<IF fails_at > 1 THEN Pop(tarot_user_prefs, uid) ELSE tarot_user_prefs,
      IF fails_at > 2 THEN Pop(tarot_user_settings, uid) ELSE tarot_user_settings,
      IF fails_at > 3 THEN forget_history(uid) ELSE tarot_reading_history>>

\* "with db_connect() as conn": the step fails_at raises, the connection's
\* context manager rolls the transaction back and the three tables are as
\* they were
forget_tables(uid, fails_at) ==
    <<tarot_user_prefs, tarot_user_settings, tarot_reading_history>>

\* the exception leaves forgetme_slash before the two pops; the error
\* handler answers
ForgetRolledBack(t) ==
    /\ AtBody(t, "forgetme")
    /\ \E fails_at \in DOMAIN ForgetSteps :
        LET tables == forget_tables(tasks[t].user, fails_at) IN
        /\ tarot_user_prefs' = tables[1]
        /\ tarot_user_settings' = tables[2]
        /\ tarot_reading_history' = tables[3]
        /\ tasks' = [tasks EXCEPT ![t] =
                        [Sending(t, Notice("command_error")) EXCEPT !.arg = fails_at]]
    /\ UNCHANGED <<tarot_cards, session, tarot_daily_card, today, now, observers>>

NextForgetTx == NextForget \/ \E t \in OneAtATime : ForgetRolledBack(t)

SpecForgetTx == Init /\ [][NextForgetTx]_vars

\* C33: /forgetme is all-or-nothing: when a deletion or the commit fails,
\* nothing is changed, neither the three tables nor the user's intention and
\* pending mystery; otherwise the user's tone, settings and history rows are
\* gone together, and with them the intention and the pending mystery.
C33_ForgetAllOrNothing ==
    [][\A t \in Tasks : BodyStep(t, "forgetme") =>
          LET u == tasks[t].user IN
          IF tasks'[t].resp.kind = "command_error"
          THEN UNCHANGED <<tarot_user_prefs, tarot_user_settings,
                           tarot_reading_history, user_intentions, MYSTERY_STATE>>
          ELSE /\ u \notin DOMAIN tarot_user_prefs'
               /\ u \notin DOMAIN tarot_user_settings'
               /\ RowsOf(u)' = <<>>
               /\ u \notin DOMAIN user_intentions'
               /\ u \notin DOMAIN MYSTERY_STATE']_vars

C33_Witness ==
    \E t \in Tasks :
        /\ tasks[t].pc = "send" /\ tasks[t].cmd = "forgetme"
        /\ tasks[t].resp.kind = "command_error"
        /\ ForgetSteps[tasks[t].arg] = "history"
        /\ Holds(tasks[t].user) = {"tone", "settings", "history", "intention", "mystery"}

\* ------------------------------------------- two /settings side by side
\* two handlers of one user in flight together; set_user_settings has no
\* await between its SELECT and its upsert, so each body is one step
NextSettings ==
    \E t \in Tasks :
        \/ Invoke(t, 1, "settings")
        \/ DeferFail(t)
        \/ SettingsBody(t)
        \/ Done(t)

SpecSettings == Init /\ [][NextSettings]_vars

SettingsInFlight == {t \in Tasks : tasks[t].pc = "send" /\ tasks[t].cmd = "settings"}

\* C34: of two /settings of one user in flight together, one naming only
\* history and the other only images, both take effect: when the body of the
\* second runs on the row the first has left, the stored row then holds the
\* history value of the one and the images value of the other, whichever of
\* the two ran first.
C34_BothSettingsTakeEffect ==
    [][\A a \in SettingsInFlight, b \in Tasks :
          LET given_a == SettingsArgs[tasks[a].arg]
              given_b == SettingsArgs[tasks'[b].arg]
              history == IF given_a[1] # "none" THEN given_a[1] ELSE given_b[1]
              images == IF given_a[2] # "none" THEN given_a[2] ELSE given_b[2]
          IN  /\ BodyStep(b, "settings")
              /\ tasks[a].user = tasks[b].user
              /\ <<get_user_settings(tasks[a].user)>> = tasks[a].resp.rows
              /\ (given_a[1] = "none") # (given_a[2] = "none")
              /\ (given_b[1] = "none") # (given_b[2] = "none")
              /\ (given_a[1] = "none") # (given_b[1] = "none")
              => get_user_settings(tasks[a].user)' =
                    [history_opt_in |-> history = "on",
                     images_enabled |-> images = "on"]]_vars

C34_Witness ==
    \E a, b \in SettingsInFlight :
        /\ tasks[a].user = tasks[b].user
        /\ SettingsArgs[tasks[a].arg] = <<"on", "none">>
        /\ SettingsArgs[tasks[b].arg] = <<"none", "off">>
        /\ tasks[a].resp.rows = <<[history_opt_in |-> TRUE, images_enabled |-> TRUE]>>
        /\ tasks[b].resp.rows = <<[history_opt_in |-> TRUE, images_enabled |-> FALSE]>>
        /\ get_user_settings(tasks[a].user) =
              [history_opt_in |-> TRUE, images_enabled |-> FALSE]

\* ------------------------------------------------ what /shuffle resets
\* the deployment of InitShared; each user sets an intention, a tone, a
\* pending mystery card, and cleanses
CleanseCmds == {"shuffle", "intent", "tone", "mystery"}

NextCleanse ==
    \E t \in Tasks :
        \/ \E cmd \in CleanseCmds : Invoke(t, t, cmd)
        \/ DeferFail(t)
        \/ ShuffleBody(t)
        \/ IntentBody(t)
        \/ ToneBody(t)
        \/ MysteryBody(t)
        \/ Done(t)

SpecCleanse == InitShared /\ [][NextCleanse]_vars

\* C35: the body of a /shuffle leaves its user without an intention, without
\* a pending mystery card and with the default tone; it leaves every settings
\* row, history row and daily-card record as it was, and the intention,
\* pending card and stored tone of every other user.
C35_ShuffleResetsExactly ==
    [][\A t \in Tasks : BodyStep(t, "shuffle") =>
          LET u == tasks[t].user IN
          /\ u \notin DOMAIN user_intentions'
          /\ u \notin DOMAIN MYSTERY_STATE'
          /\ get_user_tone(tasks[t].user)' = DEFAULT_TONE
          /\ tarot_user_settings' = tarot_user_settings
          /\ tarot_reading_history' = tarot_reading_history
          /\ tarot_daily_card' = tarot_daily_card
          /\ \A v \in Users \ {u} :
                /\ EntryOf(user_intentions', v) = EntryOf(user_intentions, v)
                /\ EntryOf(MYSTERY_STATE', v) = EntryOf(MYSTERY_STATE, v)
                /\ EntryOf(tarot_user_prefs', v) = EntryOf(tarot_user_prefs, v)]_vars

\* a /shuffle has just run for a user who held an intention, a pending card
\* and a stored tone, beside another user who holds all three
C35_Witness ==
    \E t \in Tasks :
        LET u == tasks[t].user IN
        /\ tasks[t].pc = "send" /\ tasks[t].cmd = "shuffle"
        /\ tasks[t].erased = {"tone"}
        /\ last_op[u].op = "shuffle"
        /\ u \notin DOMAIN user_intentions
        /\ u \notin DOMAIN MYSTERY_STATE
        /\ get_user_settings(u) = [history_opt_in |-> FALSE, images_enabled |-> TRUE]
        /\ RowsOf(u) # <<>>
        /\ DailyRowsOf(u) # {}
        /\ \E v \in Users \ {u} :
              /\ v \in DOMAIN user_intentions
              /\ v \in DOMAIN MYSTERY_STATE
              /\ v \in DOMAIN tarot_user_prefs

\* ------------------------------------------- every way a /reveal may end
\* lines 1719-1759 when a statement of the try raises before the delivery is
\* awaited (the tone or settings read, the rendering): the finally clears the
\* entry in the same step, and on_app_command_error sends its notice
RevealRaised(t) ==
    /\ AtBody(t, "reveal")
    /\ LET u == tasks[t].user
           state == reveal_read(u)
       IN
       /\ state # {}
       /\ find_card_by_name((CHOOSE e \in state : TRUE).name) # {}
       /\ MYSTERY_STATE' = reveal_finally(state, u)
       /\ tasks' = [tasks EXCEPT ![t] =
                       [Sending(t, Notice("command_error"))
                           EXCEPT !.erased = {"mystery"}, !.prev = last_op[u]]]
       /\ last_op' = [last_op EXCEPT ![u] = FollowingReveal(t, @)]
    /\ UNCHANGED <<tarot_cards, user_intentions, database, today, now,
                   reveal_emits, reopened>>

RevealEndCmds == {"mystery", "reveal"}

NextRevealEnds ==
    \E t \in Tasks :
        \/ \E u \in Users, cmd \in RevealEndCmds : Invoke(t, u, cmd)
        \/ DeferFail(t)
        \/ MysteryBody(t)
        \/ RevealBody(t)
        \/ RevealRaised(t)
        \/ RevealDone(t)
        \/ Done(t)

SpecRevealEnds == Init /\ [][NextRevealEnds]_vars

\* the try block of the reveal of task t, entered with a pending entry, is
\* left in this step: after the delivery, or by an error before it
RevealEnds(t) ==
    \/ RevealFinishes(t) /\ tasks[t].state # {}
    \/ BodyStep(t, "reveal") /\ tasks'[t].resp.kind = "command_error"

\* C36: whenever a /reveal that read a pending entry ends, after its delivery
\* (of the reading or of the lost-track notice, delivered or failed) or by an
\* error raised before it, its user has no pending entry in the next state.
C36_FinishedRevealLeavesNoPending ==
    [][\A t \in Tasks :
          RevealEnds(t) => tasks[t].user \notin DOMAIN MYSTERY_STATE']_vars

\* a reveal has just failed before its delivery, having read a pending entry,
\* and its user has nothing pending
C36_Witness ==
    \E t \in Tasks :
        /\ tasks[t].pc = "send" /\ tasks[t].cmd = "reveal"
        /\ tasks[t].resp.kind = "command_error"
        /\ tasks[t].erased = {"mystery"}
        /\ tasks[t].prev.op = "mystery"
        /\ tasks[t].user \notin DOMAIN MYSTERY_STATE

\* ------------------------------------- a handler whose defer was refused
\* a plausible slip: the session state cleared before the result of
\* safe_defer is looked at
DeferInvalid_late(t) ==
    /\ tasks[t].pc = "defer"
    /\ tasks' = [tasks EXCEPT ![t] =
                    [IdleTask EXCEPT !.cmd = tasks[t].cmd, !.user = tasks[t].user]]
    /\ user_intentions' = Pop(user_intentions, tasks[t].user)
    /\ MYSTERY_STATE' = Pop(MYSTERY_STATE, tasks[t].user)
    /\ UNCHANGED <<tarot_cards, database, today, now, observers>>

\* safe_defer caught NotFound and returned False, the handler returned at
\* "if not await safe_defer(...): return" (the idle task keeps the name of
\* the command and of the user, for the observer)
DeferInvalid(t) ==
    /\ tasks[t].pc = "defer"
    /\ tasks' = [tasks EXCEPT ![t] =
                    [IdleTask EXCEPT !.cmd = tasks[t].cmd, !.user = tasks[t].user]]
    /\ UNCHANGED <<tarot_cards, session, database, today, now, observers>>

NextDeferral ==
    \E t \in OneAtATime :
        \/ \E cmd \in ForgetCmds : Invoke(t, 1, cmd)
        \/ DeferInvalid(t)
        \/ ToneBody(t)
        \/ SettingsBody(t)
        \/ IntentBody(t)
        \/ MysteryBody(t)
        \/ CardOfTheDayBody(t)
        \/ ForgetBody(t)
        \/ Done(t)

SpecDeferral == Init /\ [][NextDeferral]_vars

\* the handler of task t returns where it awaited safe_defer
ReturnsAtDefer(t) == tasks[t].pc = "defer" /\ tasks'[t].pc = "idle"

\* C37: the step in which a handler returns because safe_defer reported the
\* interaction invalid changes no state: the deck, the intentions, the pending
\* mystery cards, the stored tones, the settings, the history rows and the
\* daily-card records are all as before.
C37_InvalidInteractionChangesNothing ==
    [][\A t \in Tasks : ReturnsAtDefer(t) =>
          /\ tarot_cards' = tarot_cards
          /\ user_intentions' = user_intentions
          /\ MYSTERY_STATE' = MYSTERY_STATE
          /\ tarot_user_prefs' = tarot_user_prefs
          /\ tarot_user_settings' = tarot_user_settings
          /\ tarot_reading_history' = tarot_reading_history
          /\ tarot_daily_card' = tarot_daily_card]_vars

\* a /forgetme has just returned at its refused defer, and its user still
\* holds an intention, a pending card, a tone, a settings row, a history row
\* and a daily card
C37_Witness ==
    \E t \in Tasks :
        /\ tasks[t].pc = "idle" /\ tasks[t].cmd = "forgetme"
        /\ LET u == tasks[t].user IN
           /\ u \in DOMAIN user_intentions
           /\ u \in DOMAIN MYSTERY_STATE
           /\ u \in DOMAIN tarot_user_prefs
           /\ u \in DOMAIN tarot_user_settings
           /\ RowsOf(u) # <<>>
           /\ DailyRowsOf(u) # {}

\* ------------------------------------------------- what the tone table holds
\* set_user_tone called with any string, beside the two commands that delete
\* the stored tone
ToneResetCmds == {"shuffle", "forgetme"}

NextTones ==
    \E t \in Tasks :
        \/ SetToneStep(t)
        \/ \E u \in Users, cmd \in ToneResetCmds : Invoke(t, u, cmd)
        \/ DeferFail(t)
        \/ ShuffleBody(t)
        \/ ForgetBody(t)
        \/ Done(t)

SpecTones == Init /\ [][NextTones]_vars

\* C38: in every state each stored tone is a known preset and the tone read
\* of its user is that stored name; the tone read of a user without a stored
\* tone is the default.
C38_StoredToneIsKnownPreset ==
    \A u \in Users :
        IF u \in DOMAIN tarot_user_prefs
        THEN /\ tarot_user_prefs[u] \in DOMAIN TONE_SPECS
             /\ get_user_tone(u) = tarot_user_prefs[u]
        ELSE get_user_tone(u) = DEFAULT_TONE

\* set_user_tone was called with a string that is no preset as it stands, and
\* the user's stored tone is the preset it normalizes to; another user's tone
\* was deleted by a /shuffle
C38_Witness ==
    \E t, r \in Tasks :
        /\ tasks[t].pc = "stored"
        /\ tasks[t].arg.tone \in {" Full ", "POETIC"}
        /\ tasks[t].user \in DOMAIN tarot_user_prefs
        /\ tarot_user_prefs[tasks[t].user] = lower_strip(tasks[t].arg.tone)
        /\ tasks[r].pc = "send" /\ tasks[r].cmd = "shuffle"
        /\ tasks[r].erased = {"tone"}
        /\ tasks[r].user \notin DOMAIN tarot_user_prefs

====
